---- MODULE Spec2Model ----
(***************************************************************************)
(* Authentication, CSRF defence and hierarchical access control of the     *)
(* todo application's Express server (server.js, database.js).             *)
(*                                                                         *)
(* The store is the SQLite database; a request is carried through the      *)
(* Express middleware chain one stage at a time (req.pc names the stage    *)
(* that runs next).  SQLite is opened without PRAGMA foreign_keys = ON, so *)
(* the ON DELETE CASCADE clauses of the schema never fire: a DELETE        *)
(* removes the named rows only.                                            *)
(***************************************************************************)
EXTENDS Integers, Sequences, FiniteSets, TLC

(* ------------------------------ bounds -------------------------------- *)
NUsers == 2          \* registered users
MaxProjects == 2     \* project rows ever inserted
MaxTicks == 1        \* days the clock advances after the initial state
MaxSections == 3     \* section rows ever inserted
MaxTasks == 3        \* task rows ever inserted
MaxLogins == 1       \* sessions issued after the initial state
MaxApiTokens == 3    \* api_tokens rows ever inserted
MaxClock == 2        \* times of day after the start of a day

(* ------------------------- program constants -------------------------- *)
JWT_EXPIRY == 7      \* days: const JWT_EXPIRY = '7d'
REFRESH_EXPIRY == 30 \* days: Date.now() + 30 * 24 * 60 * 60 * 1000
CACHE_TTL == 5000    \* milliseconds: const CACHE_TTL = 5000
ClockStep == 2500    \* milliseconds between two times of day of the clock

Users == 1..NUsers

(* ------------------------------ tokens -------------------------------- *)
\* A credential string.  kind "jwt": a JSON web token with its payload and
\* whether its signature verifies under JWT_SECRET; kind "hex": an opaque
\* hex string (API tokens are 32 random bytes in hex); kind "absent": the
\* cookie or header is not there (JS undefined).
NoToken == [kind |-> "absent", userId |-> 0, exp |-> 0, signed |-> FALSE, hex |-> 0]
Jwt(u, exp, signed) == [kind |-> "jwt", userId |-> u, exp |-> exp, signed |-> signed, hex |-> 0]
Hex(n) == [kind |-> "hex", userId |-> 0, exp |-> 0, signed |-> FALSE, hex |-> n]

\* jwt.sign({ userId }, JWT_SECRET, { expiresIn: JWT_EXPIRY }) at time t
jwtSign(u, t) == Jwt(u, t + JWT_EXPIRY, TRUE)

\* jwt.verify(token, JWT_SECRET) at time t: does it return a payload?
\* a verifier that still takes the token at its expiry time
jwtVerifyInclusive(token, t) == token.kind = "jwt" /\ token.signed /\ t <= token.exp
jwtVerify(token, t) == token.kind = "jwt" /\ token.signed /\ t < token.exp

\* generateApiToken(): the n-th random value drawn
generateApiToken(n) == Hex(n)

\* crypto.randomBytes(64).toString('hex'): the n-th refresh token drawn
randomBytes(n) == [kind |-> "refresh", userId |-> 0, exp |-> 0, signed |-> FALSE, hex |-> n]

(* ----------------------------- passwords ------------------------------ *)
\* A password is its text's identity and the character classes it holds.
Password(id, len, up, low, dig) ==
  [id |-> id, length |-> len, upper |-> up, lower |-> low, digit |-> dig]
StrongA == Password("A", 8, TRUE, TRUE, TRUE)
StrongB == Password("B", 9, TRUE, TRUE, TRUE)
WeakC == Password("C", 8, FALSE, TRUE, TRUE)
NoPassword == Password("", 0, FALSE, FALSE, FALSE)

validatePassword(password) ==
  (IF password.length < 8 THEN {"length"} ELSE {})
    \cup (IF ~password.upper THEN {"uppercase"} ELSE {})
    \cup (IF ~password.lower THEN {"lowercase"} ELSE {})
    \cup (IF ~password.digit THEN {"number"} ELSE {})

bcryptHash(password) == <<"bcrypt", password.id>>
\* a comparison that takes any password
bcryptCompareAny(password, hash) == TRUE
bcryptCompare(password, hash) == hash = bcryptHash(password)

(* ------------------------------- dates -------------------------------- *)
\* Date.prototype.toISOString(): 'YYYY-MM-DDTHH:MM:SS.sssZ' as the date, the
\* byte that follows it ('T' is 84) and the time.
toISOString(day, time) == <<day, 84, time>>
\* SQLite datetime("now"): 'YYYY-MM-DD HH:MM:SS' as the date, the byte that
\* follows it (' ' is 32) and the time.
datetime(day, time) == <<day, 32, time>>

\* A DATETIME column: NULL, or the day it names.
NULL == <<>>
Date(day) == <<day>>

(* ------------------------------- state -------------------------------- *)
VARIABLES
  users,          \* users table: id -> [username, password_hash]
  api_tokens,     \* api_tokens table: set of rows
  refresh_tokens, \* refresh_tokens table: set of rows [id, user_id, token, expires_at]
  projects,       \* projects table: set of rows [id, user_id]
  project_shares, \* project_shares table: set of rows
  sections,       \* sections table: set of rows [id, project_id]
  tasks,          \* tasks table: set of rows [id, section_id, parent_task_id]
  lastID,         \* AUTOINCREMENT counters, one per table
  now,            \* the clock: the day
  timeOfDay,      \* the clock: the time within the day
  cache,          \* cache.projects: set of entries [key, data, timestamp]
  req             \* the request in flight (or the last one answered)

authStore == <<users, api_tokens, refresh_tokens>>
dataStore == <<projects, project_shares, sections, tasks>>
store == <<users, api_tokens, refresh_tokens, projects, project_shares, sections, tasks, lastID>>
vars == <<users, api_tokens, refresh_tokens, projects, project_shares, sections, tasks, lastID, now, timeOfDay, cache, req>>

(* ------------------------------ routes -------------------------------- *)
Method(route) == SubSeq(route, 1, 1)[1]
Path(route) == SubSeq(route, 2, Len(route))

PostProjectsRoute == <<"POST", "api", "projects">>
ChangePasswordRoute == <<"POST", "api", "users", "change-password">>
RegisterRoute == <<"POST", "api", "users", "register">>
LoginRoute == <<"POST", "api", "users", "login">>
RefreshTokenRoute == <<"POST", "api", "users", "refresh-token">>
LogoutRoute == <<"POST", "api", "users", "logout">>
PostTokensRoute == <<"POST", "api", "users", ":userId", "tokens">>
GetTokensRoute == <<"GET", "api", "users", ":userId", "tokens">>
DeleteTokenRoute == <<"DELETE", "api", "tokens", ":id">>
DeleteProjectRoute == <<"DELETE", "api", "projects", ":id">>
PostShareRoute == <<"POST", "api", "projects", ":id", "share">>
DeleteShareRoute == <<"DELETE", "api", "projects", ":id", "shares", ":shareUserId">>
GetProjectSectionsRoute == <<"GET", "api", "projects", ":projectId", "sections">>
PostSectionsRoute == <<"POST", "api", "sections">>
GetSectionTasksRoute == <<"GET", "api", "sections", ":sectionId", "tasks">>
DeleteSectionRoute == <<"DELETE", "api", "sections", ":id">>
PostTasksRoute == <<"POST", "api", "tasks">>
PutTaskRoute == <<"PUT", "api", "tasks", ":id">>
DeleteTaskRoute == <<"DELETE", "api", "tasks", ":id">>
MoveTaskRoute == <<"POST", "api", "tasks", ":id", "move">>
PostSubtasksRoute == <<"POST", "api", "tasks", ":id", "subtasks">>
GetProjectsRoute == <<"GET", "api", "users", ":userId", "projects">>

ProjectRoutes ==
  {DeleteProjectRoute, PostShareRoute, DeleteShareRoute, GetProjectSectionsRoute}
SectionTaskRoutes ==
  {PostSectionsRoute, GetSectionTasksRoute, PostTasksRoute, PutTaskRoute,
   DeleteTaskRoute, MoveTaskRoute}

\* The middleware each route registers before its handler (the rate
\* limiter of register and login is not modelled).
Middleware(route) ==
  CASE route \in {RegisterRoute, LoginRoute, RefreshTokenRoute} -> <<>>
    [] route \in {PostTokensRoute, GetTokensRoute, GetProjectsRoute} -> <<"authenticateToken", "verifyUserMatch">>
    [] route \in ProjectRoutes -> <<"authenticateToken", "checkProjectAccess">>
    [] route \in {GetSectionTasksRoute, DeleteSectionRoute}
         -> <<"authenticateToken", "checkSectionAccess">>
    [] route \in {PutTaskRoute, DeleteTaskRoute, MoveTaskRoute, PostSubtasksRoute}
         -> <<"authenticateToken", "checkTaskAccess">>
    [] OTHER -> <<"authenticateToken">>

csrfProtectedRoutes ==
  { <<"api", "projects">>, <<"api", "sections">>, <<"api", "tasks">>,
    <<"api", "labels">>, <<"api", "tokens">> }

\* app.use(route, conditionalCsrf): Express runs the middleware for every
\* path that starts with the mount path at a segment boundary.
IsMounted(prefix, path) ==
  Len(prefix) <= Len(path) /\ SubSeq(path, 1, Len(prefix)) = prefix

CsrfMounted(route) == \E p \in csrfProtectedRoutes : IsMounted(p, Path(route))

\* The stages of a request, in the order Express runs them: app.use
\* middleware registered before the routes comes first.
Chain(route) ==
  (IF CsrfMounted(route) THEN <<"conditionalCsrf">> ELSE <<>>)
    \o Middleware(route) \o <<"handler">>

(* ------------------------------ requests ------------------------------ *)
\* req.body: the JSON fields the modelled handlers read; 0, "" and
\* NoPassword stand for a field that is not sent, and a parent_task_id of -1
\* for a JSON null.
NoBody ==
  [ name |-> "", title |-> "", currentPassword |-> NoPassword, newPassword |-> NoPassword,
    password |-> NoPassword, refreshToken |-> NoToken, scopes |-> "", expiresInDays |-> 0,
    username |-> 0, projectId |-> 0, sectionId |-> 0, parent_task_id |-> 0 ]

NoAuthorization == [scheme |-> "", token |-> NoToken]

\* res.json of the session endpoints: the fields of the body sent.
NoRes == [user |-> 0, accessToken |-> NoToken, refreshToken |-> NoToken, rows |-> {}]

Idle ==
  [ route |-> <<"", "">>, cookie |-> NoToken, refreshCookie |-> NoToken,
    res |-> NoRes, authorization |-> NoAuthorization,
    csrf |-> FALSE, id |-> 0, shareUserId |-> 0, body |-> NoBody,
    pc |-> "idle", step |-> 0, status |-> 0, error |-> "",
    userId |-> 0, authenticatedViaJWT |-> FALSE, authenticatedViaToken |-> FALSE,
    tokenScopes |-> "", tokenRecord |-> {}, isOwner |-> FALSE, project |-> 0,
    credential |-> "", authenticated |-> FALSE, authAt |-> NULL, threw |-> "",
    csrfVerified |-> FALSE, trace |-> <<>>, queried |-> <<>>,
    granted |-> {}, touched |-> {} ]

\* A client request entering the chain.
Incoming(route, cookie, authorization, csrf, id, body) ==
  [ Idle EXCEPT !.route = route, !.cookie = cookie, !.authorization = authorization,
                !.csrf = csrf, !.id = id, !.body = body,
                !.step = 1, !.pc = Chain(route)[1] ]

\* next(): hand the request to the following stage.
CallNext(r) ==
  [ r EXCEPT !.step = r.step + 1, !.pc = Chain(r.route)[r.step + 1],
             !.trace = Append(r.trace, r.pc) ]

\* res.status(code).json({ error }): the request is answered.
Respond(r, code, kind) ==
  [ r EXCEPT !.pc = "done", !.status = code, !.error = kind,
             !.trace = Append(r.trace, r.pc) ]

(* -------------------------------- cache ------------------------------- *)
\* Date.now() - cached.timestamp, in milliseconds (a day is longer than
\* CACHE_TTL)
Elapsed(timestamp) ==
  IF timestamp[1] < now THEN CACHE_TTL ELSE (timeOfDay - timestamp[2]) * ClockStep

\* getFromCache(key, cache.projects): the data of a live entry, if any
getFromCache(key) ==
  {cached.data : cached \in {e \in cache : e.key = key /\ Elapsed(e.timestamp) < CACHE_TTL}}

\* setCache(key, data, cache.projects)
setCache(key, data) ==
  {e \in cache : e.key # key}
    \cup {[key |-> key, data |-> data, timestamp |-> <<now, timeOfDay>>]}

\* invalidateCache(pattern), as far as cache.projects goes: the map is
\* cleared when the pattern includes 'projects' or is missing.
invalidateCache(pattern) == IF pattern \in {"", "projects"} THEN {} ELSE cache

(* ----------------------------- middleware ----------------------------- *)
\* authHeader && authHeader.startsWith('Bearer ')  (a header value arrives
\* without trailing blanks, so the prefix is followed by a token)
StartsWithBearer(authorization) ==
  authorization.scheme = "Bearer" /\ authorization.token # NoToken

\* csrf-csrf's doubleCsrfProtection as configured: GET, HEAD and OPTIONS
\* pass unverified; any other method needs the x-csrf-token header to match
\* the csrf cookie, else the request ends with its 403 ForbiddenError.
doubleCsrfProtection(r) ==
  IF Method(r.route) \in {"GET", "HEAD", "OPTIONS"} THEN CallNext(r)
  ELSE IF r.csrf THEN CallNext([r EXCEPT !.csrfVerified = TRUE])
  ELSE Respond(r, 403, "CsrfMismatch")

conditionalCsrf ==
  /\ req.pc = "conditionalCsrf"
  /\ req' = IF StartsWithBearer(req.authorization) THEN CallNext(req)
            ELSE doubleCsrfProtection(req)
  /\ UNCHANGED <<store, now, timeOfDay, cache>>

\* The store calls of authenticateToken may throw (store unavailable).
StoreFaults == {"none", "dbGet", "dbRun"}

\* const token = cookieToken || headerToken
\* an authenticator that reads the header only under the Bearer scheme
SelectBearerToken(r) ==
  IF r.cookie # NoToken THEN r.cookie
  ELSE IF r.authorization.scheme = "Bearer" THEN r.authorization.token
  ELSE NoToken
SelectToken(r) == IF r.cookie # NoToken THEN r.cookie ELSE r.authorization.token

\* tokenRecord && (!tokenRecord.expires_at || new Date(tokenRecord.expires_at) > new Date())
ApiTokenLive(row, t) == row.expires_at = NULL \/ row.expires_at[1] > t

\* return res.status(code).json({ error }) of authenticateToken
\* a fail-open authenticator: the failure is ignored and the chain goes on
AuthFailOpen(r, code, kind) == CallNext(r)
AuthFailure(r, code, kind) == Respond(r, code, kind)

\* return next() of authenticateToken
\* an authenticator that lets a token with the scope 'read' only read
AuthSuccessScoped(r) ==
  IF r.authenticatedViaToken /\ r.tokenScopes = "read" /\ Method(r.route) # "GET"
  THEN Respond(r, 403, "InsufficientScope")
  ELSE CallNext([r EXCEPT !.authenticated = TRUE])
\* a verifier that also asks the store for a session of the token's user
AuthSuccessWithSession(r) ==
  IF \E row \in refresh_tokens : row.user_id = r.userId
  THEN CallNext([r EXCEPT !.authenticated = TRUE])
  ELSE Respond(r, 403, "InvalidOrExpired")
AuthSuccess(r) == CallNext([r EXCEPT !.authenticated = TRUE])

authenticateToken ==
  /\ req.pc = "authenticateToken"
  /\ \E fault \in StoreFaults \ {"dbRun"} :
       LET token == SelectToken(req)
           r0 == [req EXCEPT !.credential = IF req.cookie # NoToken THEN "cookie" ELSE "header",
                             !.authAt = Date(now)]
           found == {row \in api_tokens : row.token = token}
       IN IF token = NoToken THEN
            /\ req' = AuthFailure(req, 401, "AuthenticationRequired")
            /\ UNCHANGED <<store, now, timeOfDay, cache>>
          ELSE IF jwtVerify(token, now) THEN
            /\ req' = AuthSuccess([r0 EXCEPT !.userId = token.userId,
                                             !.authenticatedViaJWT = TRUE])
            /\ UNCHANGED <<store, now, timeOfDay, cache>>
          ELSE IF fault = "dbGet" THEN
            /\ req' = AuthFailure([r0 EXCEPT !.threw = fault], 500, "InternalServerError")
            /\ UNCHANGED <<store, now, timeOfDay, cache>>
          ELSE IF \E row \in found : ApiTokenLive(row, now) THEN
            LET row == CHOOSE x \in found : ApiTokenLive(x, now)
            IN /\ req' = [r0 EXCEPT !.userId = row.user_id, !.tokenScopes = row.scopes,
                                    !.authenticatedViaToken = TRUE,
                                    !.tokenRecord = {row},
                                    !.pc = "authenticateToken.update"]
               /\ UNCHANGED <<store, now, timeOfDay, cache>>
          ELSE
            /\ req' = AuthFailure(r0, 403, "InvalidOrExpired")
            /\ UNCHANGED <<store, now, timeOfDay, cache>>

\* An update that puts the row back when it is gone (INSERT OR REPLACE).
ReplaceLastUsed(rows, tokenRecord, at) ==
  {row \in rows : \A x \in tokenRecord : row.id # x.id}
    \cup {[x EXCEPT !.last_used_at = at] : x \in tokenRecord}

\* UPDATE api_tokens SET last_used_at = CURRENT_TIMESTAMP WHERE id = ?
UpdateLastUsed(rows, tokenRecord, at) ==
  {IF \E x \in tokenRecord : row.id = x.id
   THEN [row EXCEPT !.last_used_at = at] ELSE row : row \in rows}

\* authenticateToken after its api_tokens lookup returned a live row: the
\* await of the last_used_at update, then next().  Other requests may have
\* changed the store since the lookup.
authenticateTokenUpdate ==
  /\ req.pc = "authenticateToken.update"
  /\ \E fault \in StoreFaults \ {"dbGet"} :
       LET r == [req EXCEPT !.pc = "authenticateToken"]
       IN IF fault = "dbRun" THEN
            /\ req' = AuthFailure([r EXCEPT !.threw = fault], 500, "InternalServerError")
            /\ UNCHANGED <<store, now, timeOfDay, cache>>
          ELSE
            /\ api_tokens' = UpdateLastUsed(api_tokens, req.tokenRecord, Date(now))
            /\ req' = AuthSuccess(r)
            /\ UNCHANGED <<users, refresh_tokens, dataStore, lastID, now, timeOfDay, cache>>

(* --------------------------- access control --------------------------- *)
\* Each access middleware is one step: its queries read a single snapshot
\* of the store, and their results are what the chain goes on with.

\* SELECT * FROM projects WHERE id = ? AND user_id = ?
OwnedProject(projectId, userId) ==
  {p \in projects : p.id = projectId /\ p.user_id = userId}
\* SELECT * FROM project_shares WHERE project_id = ? AND user_id = ?
ShareRow(projectId, userId) ==
  {sh \in project_shares : sh.project_id = projectId /\ sh.user_id = userId}
\* SELECT * FROM projects WHERE id = ?  (its id, 0 when there is no row)
ProjectRow(projectId) ==
  IF \E p \in projects : p.id = projectId THEN projectId ELSE 0
\* SELECT * FROM sections WHERE id = ?
SectionRow(sectionId) == {sc \in sections : sc.id = sectionId}
\* SELECT * FROM tasks WHERE id = ?
TaskRow(taskId) == {t \in tasks : t.id = taskId}
\* A join on the wrong column: s.id = t.id.
TaskProjectById(taskId) ==
  {sc.project_id : sc \in {x \in sections : \E t \in tasks : t.id = taskId /\ t.id = x.id}}
\* SELECT t.*, s.project_id FROM tasks t JOIN sections s ON t.section_id = s.id
\* WHERE t.id = ?  (the project_id column of the joined row)
TaskProject(taskId) ==
  {sc.project_id : sc \in {x \in sections :
                             \E t \in tasks : t.id = taskId /\ t.section_id = x.id}}

\* A project resolver that ignores the share table.
ResolveOwnerOnly(r, projectId) ==
  IF OwnedProject(projectId, r.userId) # {}
  THEN [r EXCEPT !.isOwner = TRUE, !.project = projectId,
                 !.queried = r.queried \o <<"projects">>,
                 !.granted = r.granted \cup {projectId}]
  ELSE [r EXCEPT !.queried = r.queried \o <<"projects">>]

\* The owner-then-share resolution shared by the three access middleware:
\* the request with its access fields set, unchanged when access is denied.
ResolveAccess(r, projectId) ==
  IF OwnedProject(projectId, r.userId) # {}
  THEN [r EXCEPT !.isOwner = TRUE, !.project = projectId,
                 !.queried = r.queried \o <<"projects">>,
                 !.granted = r.granted \cup {projectId}]
  ELSE IF ShareRow(projectId, r.userId) # {}
  THEN [r EXCEPT !.isOwner = FALSE, !.project = ProjectRow(projectId),
                 !.queried = r.queried \o <<"projects", "project_shares", "projects">>,
                 !.granted = r.granted \cup {projectId}]
  ELSE [r EXCEPT !.queried = r.queried \o <<"projects", "project_shares">>]

Granted(r, projectId) == projectId \in ResolveAccess(r, projectId).granted

checkProjectAccess ==
  /\ req.pc = "checkProjectAccess"
  /\ LET projectId == IF req.id # 0 THEN req.id ELSE req.body.projectId
     IN req' = IF projectId = 0 THEN Respond(req, 400, "ProjectIdRequired")
               ELSE IF Granted(req, projectId)
               THEN CallNext(ResolveAccess(req, projectId))
               ELSE Respond(ResolveAccess(req, projectId), 403, "AccessDenied")
  /\ UNCHANGED <<store, now, timeOfDay, cache>>

checkSectionAccess ==
  /\ req.pc = "checkSectionAccess"
  /\ LET sectionId == IF req.id # 0 THEN req.id ELSE req.body.sectionId
         section == SectionRow(sectionId)
         project_id == (CHOOSE sc \in section : TRUE).project_id
     IN req' = IF sectionId = 0 THEN Respond(req, 400, "SectionIdRequired")
               ELSE IF section = {} THEN Respond(req, 404, "SectionNotFound")
               ELSE IF Granted(req, project_id)
               THEN CallNext(ResolveAccess(req, project_id))
               ELSE Respond(ResolveAccess(req, project_id), 403, "AccessDenied")
  /\ UNCHANGED <<store, now, timeOfDay, cache>>

checkTaskAccess ==
  /\ req.pc = "checkTaskAccess"
  /\ LET taskId == req.id
         task == TaskProject(taskId)
         project_id == CHOOSE x \in task : TRUE
     IN req' = IF taskId = 0 THEN Respond(req, 400, "TaskIdRequired")
               ELSE IF task = {} THEN Respond(req, 404, "TaskNotFound")
               ELSE IF Granted(req, project_id)
               THEN CallNext(ResolveAccess(req, project_id))
               ELSE Respond(ResolveAccess(req, project_id), 403, "AccessDenied")
  /\ UNCHANGED <<store, now, timeOfDay, cache>>

(* ------------------------------ handlers ------------------------------ *)
\* POST /api/projects
PostProjects ==
  /\ req.pc = "handler" /\ req.route = PostProjectsRoute
  /\ IF req.body.name = "" THEN
       /\ req' = Respond(req, 400, "NameRequired")
       /\ UNCHANGED <<store, now, timeOfDay, cache>>
     ELSE
       /\ projects' = projects \cup {[id |-> lastID.projects + 1, user_id |-> req.userId]}
       /\ lastID' = [lastID EXCEPT !.projects = @ + 1]
       /\ req' = Respond(req, 200, "")
       /\ UNCHANGED <<authStore, project_shares, sections, tasks, now, timeOfDay>>
       /\ cache' = invalidateCache("projects")

\* The rows of GET /api/users/:userId/projects: the user's own projects
\* and those shared with the user, each with its task count (tasks of the
\* project's sections) and its share count.  The order of the list is not
\* modelled.
projectsWithCounts(userId) ==
  { [ id |-> p.id, is_owner |-> p.user_id = userId,
      taskCount |-> Cardinality({t \in tasks : \E sc \in sections :
                                   sc.project_id = p.id /\ t.section_id = sc.id}),
      sharedWithCount |-> Cardinality({sh \in project_shares : sh.project_id = p.id}) ]
    : p \in {x \in projects : x.user_id = userId \/ ShareRow(x.id, userId) # {}} }

\* GET /api/users/:userId/projects
GetProjects ==
  /\ req.pc = "handler" /\ req.route = GetProjectsRoute
  /\ LET userId == req.userId
         cached == getFromCache(userId)
         data == projectsWithCounts(userId)
     IN IF cached # {} THEN
          /\ req' = Respond([req EXCEPT !.res.rows = CHOOSE d \in cached : TRUE], 200, "")
          /\ UNCHANGED <<store, now, timeOfDay, cache>>
        ELSE IF data = {} THEN
          /\ req' = Respond(req, 200, "")
          /\ UNCHANGED <<store, now, timeOfDay, cache>>
        ELSE
          /\ cache' = setCache(userId, data)
          /\ req' = Respond([req EXCEPT !.res.rows = data], 200, "")
          /\ UNCHANGED <<store, now, timeOfDay>>

\* POST /api/users/change-password
PostChangePassword ==
  /\ req.pc = "handler" /\ req.route = ChangePasswordRoute
  /\ LET userId == req.userId
         currentPassword == req.body.currentPassword
         newPassword == req.body.newPassword
     IN IF currentPassword = NoPassword \/ newPassword = NoPassword THEN
          /\ req' = Respond(req, 400, "PasswordsRequired")
          /\ UNCHANGED <<store, now, timeOfDay, cache>>
        ELSE IF validatePassword(newPassword) # {} THEN
          /\ req' = Respond(req, 400, "WeakPassword")
          /\ UNCHANGED <<store, now, timeOfDay, cache>>
        ELSE IF userId \notin DOMAIN users THEN
          /\ req' = Respond(req, 404, "UserNotFound")
          /\ UNCHANGED <<store, now, timeOfDay, cache>>
        ELSE IF ~bcryptCompare(currentPassword, users[userId].password_hash) THEN
          /\ req' = Respond(req, 401, "CurrentPasswordIncorrect")
          /\ UNCHANGED <<store, now, timeOfDay, cache>>
        ELSE
          /\ users' = [users EXCEPT ![userId].password_hash = bcryptHash(newPassword)]
          /\ req' = Respond(req, 200, "")
          /\ UNCHANGED <<api_tokens, refresh_tokens, dataStore, lastID, now, timeOfDay, cache>>

\* DELETE /api/projects/:id  (foreign keys are not enforced: only the
\* projects row goes)
DeleteProject ==
  /\ req.pc = "handler" /\ req.route = DeleteProjectRoute
  /\ projects' = {p \in projects : p.id # req.id}
  /\ req' = Respond(req, 200, "")
  /\ UNCHANGED <<authStore, project_shares, sections, tasks, lastID, now, timeOfDay>>
  /\ cache' = invalidateCache("projects")

\* A gate that lets every user with access through.
AnyCollaborator(r) == TRUE
\* if (!req.isOwner) of the share and unshare handlers
OnlyOwner(r) == r.isOwner

\* POST /api/projects/:id/share
PostShare ==
  /\ req.pc = "handler" /\ req.route = PostShareRoute
  /\ LET id == req.id
         userId == req.userId
         username == req.body.username
         userToShareWith == {u \in DOMAIN users : users[u].username = username}
         shareId == CHOOSE u \in userToShareWith : TRUE
     IN IF username = 0 THEN
          /\ req' = Respond(req, 400, "UsernameRequired")
          /\ UNCHANGED <<store, now, timeOfDay, cache>>
        ELSE IF ~OnlyOwner(req) THEN
          /\ req' = Respond(req, 403, "OnlyOwnerCanShare")
          /\ UNCHANGED <<store, now, timeOfDay, cache>>
        ELSE IF userToShareWith = {} THEN
          /\ req' = Respond(req, 404, "UserNotFound")
          /\ UNCHANGED <<store, now, timeOfDay, cache>>
        ELSE IF shareId = userId THEN
          /\ req' = Respond(req, 400, "CannotShareWithYourself")
          /\ UNCHANGED <<store, now, timeOfDay, cache>>
        ELSE IF ShareRow(id, shareId) # {} THEN
          /\ req' = Respond(req, 409, "AlreadyShared")
          /\ UNCHANGED <<store, now, timeOfDay, cache>>
        ELSE
          /\ project_shares' = project_shares \cup
               {[project_id |-> id, user_id |-> shareId, shared_by_user_id |-> userId]}
          /\ req' = Respond(req, 200, "")
          /\ UNCHANGED <<authStore, projects, sections, tasks, lastID, now, timeOfDay>>
          /\ cache' = invalidateCache("projects")

\* DELETE /api/projects/:id/shares/:shareUserId
DeleteShare ==
  /\ req.pc = "handler" /\ req.route = DeleteShareRoute
  /\ IF ~OnlyOwner(req) THEN
       /\ req' = Respond(req, 403, "OnlyOwnerCanUnshare")
       /\ UNCHANGED <<store, now, timeOfDay, cache>>
     ELSE
       /\ project_shares' = project_shares \ ShareRow(req.id, req.shareUserId)
       /\ req' = Respond(req, 200, "")
       /\ UNCHANGED <<authStore, projects, sections, tasks, lastID, now, timeOfDay>>
       /\ cache' = invalidateCache("projects")

\* GET /api/projects/:projectId/sections
GetProjectSections ==
  /\ req.pc = "handler" /\ req.route = GetProjectSectionsRoute
  /\ req' = Respond(req, 200, "")
  /\ UNCHANGED <<store, now, timeOfDay, cache>>

\* if (!project && !share) of the handlers that check access themselves
HasAccess(projectId, userId) ==
  OwnedProject(projectId, userId) # {} \/ ShareRow(projectId, userId) # {}

\* POST /api/sections
PostSections ==
  /\ req.pc = "handler" /\ req.route = PostSectionsRoute
  /\ LET userId == req.userId
         projectId == req.body.projectId
     IN IF projectId = 0 \/ req.body.name = "" THEN
          /\ req' = Respond(req, 400, "ProjectIdAndNameRequired")
          /\ UNCHANGED <<store, now, timeOfDay, cache>>
        ELSE IF ~HasAccess(projectId, userId) THEN
          /\ req' = Respond(req, 403, "AccessDenied")
          /\ UNCHANGED <<store, now, timeOfDay, cache>>
        ELSE
          /\ sections' = sections \cup
               {[id |-> lastID.sections + 1, project_id |-> projectId]}
          /\ lastID' = [lastID EXCEPT !.sections = @ + 1]
          /\ req' = Respond([req EXCEPT !.granted = @ \cup {projectId},
                                        !.touched = @ \cup {projectId}], 200, "")
          /\ UNCHANGED <<authStore, projects, project_shares, tasks, now, timeOfDay>>
          /\ cache' = invalidateCache("projects")

\* GET /api/sections/:sectionId/tasks
GetSectionTasks ==
  /\ req.pc = "handler" /\ req.route = GetSectionTasksRoute
  /\ req' = Respond([req EXCEPT !.touched =
                       @ \cup {sc.project_id : sc \in SectionRow(req.id)}], 200, "")
  /\ UNCHANGED <<store, now, timeOfDay, cache>>

\* POST /api/tasks
PostTasks ==
  /\ req.pc = "handler" /\ req.route = PostTasksRoute
  /\ LET userId == req.userId
         sectionId == req.body.sectionId
         parent_task_id == req.body.parent_task_id
         section == SectionRow(sectionId)
         project_id == (CHOOSE sc \in section : TRUE).project_id
         parentTask == TaskRow(parent_task_id)
     IN IF sectionId = 0 \/ req.body.title = "" THEN
          /\ req' = Respond(req, 400, "SectionIdAndTitleRequired")
          /\ UNCHANGED <<store, now, timeOfDay, cache>>
        ELSE IF section = {} THEN
          /\ req' = Respond(req, 404, "SectionNotFound")
          /\ UNCHANGED <<store, now, timeOfDay, cache>>
        ELSE IF ~HasAccess(project_id, userId) THEN
          /\ req' = Respond(req, 403, "AccessDenied")
          /\ UNCHANGED <<store, now, timeOfDay, cache>>
        ELSE IF parent_task_id > 0 /\ parentTask = {} THEN
          /\ req' = Respond(req, 400, "ParentTaskNotFound")
          /\ UNCHANGED <<store, now, timeOfDay, cache>>
        ELSE IF parent_task_id > 0 /\ (CHOOSE t \in parentTask : TRUE).parent_task_id # 0 THEN
          /\ req' = Respond(req, 400, "MaxTwoLevels")
          /\ UNCHANGED <<store, now, timeOfDay, cache>>
        ELSE
          /\ tasks' = tasks \cup
               {[id |-> lastID.tasks + 1, section_id |-> sectionId,
                 parent_task_id |-> IF parent_task_id > 0 THEN parent_task_id ELSE 0]}
          /\ lastID' = [lastID EXCEPT !.tasks = @ + 1]
          /\ req' = Respond([req EXCEPT
                              !.granted = @ \cup {project_id},
                              !.touched = @ \cup {project_id}
                                            \cup TaskProject(parent_task_id)], 200, "")
          /\ UNCHANGED <<authStore, projects, project_shares, sections, now, timeOfDay>>
          /\ cache' = invalidateCache("projects")

\* PUT /api/tasks/:id
PutTask ==
  /\ req.pc = "handler" /\ req.route = PutTaskRoute
  /\ LET id == req.id
         parent_task_id == req.body.parent_task_id
         parentTask == TaskRow(parent_task_id)
     IN IF parent_task_id > 0 /\ parentTask = {} THEN
          /\ req' = Respond(req, 400, "ParentTaskNotFound")
          /\ UNCHANGED <<store, now, timeOfDay, cache>>
        ELSE IF parent_task_id > 0 /\ (CHOOSE t \in parentTask : TRUE).parent_task_id # 0 THEN
          /\ req' = Respond(req, 400, "MaxTwoLevels")
          /\ UNCHANGED <<store, now, timeOfDay, cache>>
        ELSE IF parent_task_id > 0 /\ parent_task_id = id THEN
          /\ req' = Respond(req, 400, "OwnParent")
          /\ UNCHANGED <<store, now, timeOfDay, cache>>
        ELSE IF parent_task_id = 0 /\ req.body.title = "" THEN
          /\ req' = Respond(req, 400, "NoFieldsToUpdate")
          /\ UNCHANGED <<store, now, timeOfDay, cache>>
        ELSE
          /\ tasks' = {IF t.id = id /\ parent_task_id # 0
                       THEN [t EXCEPT !.parent_task_id =
                               IF parent_task_id > 0 THEN parent_task_id ELSE 0]
                       ELSE t : t \in tasks}
          /\ req' = Respond([req EXCEPT
                              !.touched = @ \cup TaskProject(id)
                                            \cup TaskProject(parent_task_id)], 200, "")
          /\ UNCHANGED <<authStore, projects, project_shares, sections, lastID, now, timeOfDay, cache>>

\* POST /api/tasks/:id/subtasks
PostSubtasks ==
  /\ req.pc = "handler" /\ req.route = PostSubtasksRoute
  /\ LET id == req.id
         parentTask == TaskRow(id)
     IN IF req.body.title = "" THEN
          /\ req' = Respond(req, 400, "TitleRequired")
          /\ UNCHANGED <<store, now, timeOfDay, cache>>
        ELSE IF parentTask = {} THEN
          /\ req' = Respond(req, 404, "ParentTaskNotFound")
          /\ UNCHANGED <<store, now, timeOfDay, cache>>
        ELSE IF (CHOOSE t \in parentTask : TRUE).parent_task_id # 0 THEN
          /\ req' = Respond(req, 400, "MaxTwoLevels")
          /\ UNCHANGED <<store, now, timeOfDay, cache>>
        ELSE
          /\ tasks' = tasks \cup
               {[id |-> lastID.tasks + 1,
                 section_id |-> (CHOOSE t \in parentTask : TRUE).section_id,
                 parent_task_id |-> id]}
          /\ lastID' = [lastID EXCEPT !.tasks = @ + 1]
          /\ req' = Respond([req EXCEPT !.touched = @ \cup TaskProject(id)], 200, "")
          /\ UNCHANGED <<authStore, projects, project_shares, sections, now, timeOfDay, cache>>

\* DELETE /api/tasks/:id
DeleteTask ==
  /\ req.pc = "handler" /\ req.route = DeleteTaskRoute
  /\ tasks' = tasks \ TaskRow(req.id)
  /\ req' = Respond([req EXCEPT !.touched = @ \cup TaskProject(req.id)], 200, "")
  /\ UNCHANGED <<authStore, projects, project_shares, sections, lastID, now, timeOfDay>>
  /\ cache' = invalidateCache("projects")

\* DELETE /api/sections/:id
DeleteSection ==
  /\ req.pc = "handler" /\ req.route = DeleteSectionRoute
  /\ sections' = {sc \in sections : sc.id # req.id}
  /\ req' = Respond(req, 200, "")
  /\ UNCHANGED <<authStore, projects, project_shares, tasks, lastID, now, timeOfDay, cache>>

\* POST /api/tasks/:id/move
MoveTask ==
  /\ req.pc = "handler" /\ req.route = MoveTaskRoute
  /\ LET id == req.id
         userId == req.userId
         sectionId == req.body.sectionId
         targetSection == SectionRow(sectionId)
         project_id == (CHOOSE sc \in targetSection : TRUE).project_id
     IN IF targetSection = {} THEN
          /\ req' = Respond(req, 404, "TargetSectionNotFound")
          /\ UNCHANGED <<store, now, timeOfDay, cache>>
        ELSE IF ~HasAccess(project_id, userId) THEN
          /\ req' = Respond(req, 403, "AccessDenied")
          /\ UNCHANGED <<store, now, timeOfDay, cache>>
        ELSE
          /\ tasks' = {IF t.id = id THEN [t EXCEPT !.section_id = sectionId] ELSE t
                         : t \in tasks}
          /\ req' = Respond([req EXCEPT
                              !.granted = @ \cup {project_id},
                              !.touched = @ \cup TaskProject(id) \cup {project_id}],
                            200, "")
          /\ UNCHANGED <<authStore, projects, project_shares, sections, lastID, now, timeOfDay, cache>>

(* ------------------------------ sessions ------------------------------ *)
\* SELECT * FROM users WHERE username = ?  (the ids of the matching rows)
UserByUsername(username) == {u \in DOMAIN users : users[u].username = username}

\* A refresh expiry computed with the access token's lifetime.
accessExpiresAt(t) == toISOString(t + JWT_EXPIRY, timeOfDay)
\* new Date(Date.now() + 30 * 24 * 60 * 60 * 1000).toISOString()
refreshExpiresAt(t) == toISOString(t + REFRESH_EXPIRY, timeOfDay)

\* A comparison of the two instants as instants: date, then time.
InstantGreater(a, b) == a[1] > b[1] \/ (a[1] = b[1] /\ a[3] > b[3])
\* a > b on TEXT values: SQLite compares the strings byte by byte.
TextGreater(a, b) ==
  \/ a[1] > b[1]
  \/ a[1] = b[1] /\ a[2] > b[2]
  \/ a[1] = b[1] /\ a[2] = b[2] /\ a[3] > b[3]

\* expires_at > datetime("now"), the stored ISO text against SQLite's text
\* for the current time, on day t
ExpiresAfterNow(expires_at, t) == TextGreater(expires_at, datetime(t, timeOfDay))

\* SELECT * FROM refresh_tokens WHERE token = ? AND expires_at > datetime("now")
ValidRefreshToken(token, t) ==
  {row \in refresh_tokens : row.token = token /\ ExpiresAfterNow(row.expires_at, t)}

\* A logout that ends every session of the token's user.
DeleteSessionsOfUser(rows, token) ==
  {row \in rows : \A x \in rows : x.token = token => row.user_id # x.user_id}
\* A logout that leaves the store alone.
KeepRefreshTokens(rows, token) == rows
\* DELETE FROM refresh_tokens WHERE token = ?
DeleteRefreshToken(rows, token) == {row \in rows : row.token # token}

\* The session issued by register and login: the access token, the refresh
\* token and the refresh_tokens row stored for it.
IssueSession(r, userId) ==
  LET accessToken == jwtSign(userId, now)
      refreshToken == randomBytes(lastID.refresh_tokens + 1)
  IN /\ refresh_tokens' = refresh_tokens \cup
          {[id |-> lastID.refresh_tokens + 1, user_id |-> userId,
            token |-> refreshToken, expires_at |-> refreshExpiresAt(now)]}
     /\ lastID' = [lastID EXCEPT !.refresh_tokens = @ + 1]
     /\ req' = Respond([r EXCEPT !.res = [NoRes EXCEPT !.user = userId,
                                                        !.accessToken = accessToken,
                                                        !.refreshToken = refreshToken]], 200, "")

\* POST /api/users/register  (REGISTRATION_DISABLED is not set)
PostRegister ==
  /\ req.pc = "handler" /\ req.route = RegisterRoute
  /\ LET username == req.body.username
         password == req.body.password
         id == Cardinality(DOMAIN users) + 1
     IN IF username = 0 \/ password = NoPassword THEN
          /\ req' = Respond(req, 400, "UsernameAndPasswordRequired")
          /\ UNCHANGED <<store, now, timeOfDay, cache>>
        ELSE IF validatePassword(password) # {} THEN
          /\ req' = Respond(req, 400, "WeakPassword")
          /\ UNCHANGED <<store, now, timeOfDay, cache>>
        ELSE IF UserByUsername(username) # {} THEN
          /\ req' = Respond(req, 409, "UsernameExists")
          /\ UNCHANGED <<store, now, timeOfDay, cache>>
        ELSE
          /\ req' = [req EXCEPT !.pc = "handler.insert"]
          /\ UNCHANGED <<store, now, timeOfDay, cache>>

\* INSERT INTO users ... under username TEXT UNIQUE: does the insert throw?
UniqueViolation(username) == UserByUsername(username) # {}

\* POST /api/users/register after await bcrypt.hash: the INSERT INTO users,
\* which throws into the handler's catch when the username has been taken
\* since the SELECT, and the session of the new user.
PostRegisterInsert ==
  /\ req.pc = "handler.insert" /\ req.route = RegisterRoute
  /\ LET username == req.body.username
         password == req.body.password
         id == Cardinality(DOMAIN users) + 1
         r == [req EXCEPT !.pc = "handler"]
     IN IF UniqueViolation(username) THEN
          /\ req' = Respond([r EXCEPT !.threw = "dbRun"], 500, "InternalServerError")
          /\ UNCHANGED <<store, now, timeOfDay, cache>>
        ELSE
          /\ users' = [u \in DOMAIN users \cup {id} |->
                         IF u = id THEN [username |-> username,
                                         password_hash |-> bcryptHash(password)]
                         ELSE users[u]]
          /\ IssueSession(r, id)
          /\ UNCHANGED <<api_tokens, dataStore, now, timeOfDay, cache>>

\* Another client's registration of the same username commits while this
\* one awaits bcrypt.hash.
ConcurrentRegister ==
  /\ req.pc = "handler.insert" /\ req.route = RegisterRoute
  /\ UserByUsername(req.body.username) = {}
  /\ LET id == Cardinality(DOMAIN users) + 1
     IN /\ users' = [u \in DOMAIN users \cup {id} |->
                       IF u = id THEN [username |-> req.body.username,
                                       password_hash |-> bcryptHash(StrongB)]
                       ELSE users[u]]
        /\ refresh_tokens' = refresh_tokens \cup
             {[id |-> lastID.refresh_tokens + 1, user_id |-> id,
               token |-> randomBytes(lastID.refresh_tokens + 1),
               expires_at |-> refreshExpiresAt(now)]}
        /\ lastID' = [lastID EXCEPT !.refresh_tokens = @ + 1]
  /\ UNCHANGED <<api_tokens, dataStore, now, timeOfDay, cache, req>>

\* POST /api/users/login
PostLogin ==
  /\ req.pc = "handler" /\ req.route = LoginRoute
  /\ LET username == req.body.username
         password == req.body.password
         user == UserByUsername(username)
         id == CHOOSE u \in user : TRUE
     IN IF username = 0 \/ password = NoPassword THEN
          /\ req' = Respond(req, 400, "UsernameAndPasswordRequired")
          /\ UNCHANGED <<store, now, timeOfDay, cache>>
        ELSE IF user = {} THEN
          /\ req' = Respond(req, 401, "InvalidUsernameOrPassword")
          /\ UNCHANGED <<store, now, timeOfDay, cache>>
        ELSE IF users[id].password_hash = NULL THEN
          /\ req' = Respond(req, 401, "PleaseResetPassword")
          /\ UNCHANGED <<store, now, timeOfDay, cache>>
        ELSE IF ~bcryptCompare(password, users[id].password_hash) THEN
          /\ req' = Respond(req, 401, "InvalidUsernameOrPassword")
          /\ UNCHANGED <<store, now, timeOfDay, cache>>
        ELSE
          /\ IssueSession(req, id)
          /\ UNCHANGED <<users, api_tokens, dataStore, now, timeOfDay, cache>>

\* req.cookies?.refreshToken || req.body.refreshToken
PresentedRefreshToken(r) ==
  IF r.refreshCookie # NoToken THEN r.refreshCookie ELSE r.body.refreshToken

\* A refresh that rotates: the token presented is used up.
RotateOnRefresh(rows, token) == {row \in rows : row.token # token}
\* refresh_tokens after the refresh handler: it issues the SELECT only, no
\* INSERT, UPDATE or DELETE.
AfterRefresh(rows, token) == rows

\* POST /api/users/refresh-token
PostRefreshToken ==
  /\ req.pc = "handler" /\ req.route = RefreshTokenRoute
  /\ LET refreshToken == PresentedRefreshToken(req)
         tokenRecord == ValidRefreshToken(refreshToken, now)
         user_id == (CHOOSE row \in tokenRecord : TRUE).user_id
     IN req' = IF refreshToken = NoToken
               THEN Respond(req, 400, "RefreshTokenRequired")
               ELSE IF tokenRecord = {}
               THEN Respond(req, 403, "InvalidOrExpired")
               ELSE Respond([req EXCEPT !.res.accessToken = jwtSign(user_id, now)], 200, "")
  /\ refresh_tokens' = AfterRefresh(refresh_tokens, PresentedRefreshToken(req))
  /\ UNCHANGED <<users, api_tokens, dataStore, lastID, now, timeOfDay, cache>>

\* POST /api/users/logout
PostLogout ==
  /\ req.pc = "handler" /\ req.route = LogoutRoute
  /\ LET refreshToken == PresentedRefreshToken(req)
     IN refresh_tokens' = IF refreshToken # NoToken
                          THEN DeleteRefreshToken(refresh_tokens, refreshToken)
                          ELSE refresh_tokens
  /\ req' = Respond(req, 200, "")
  /\ UNCHANGED <<users, api_tokens, dataStore, lastID, now, timeOfDay, cache>>

(* ----------------------------- API tokens ----------------------------- *)
\* A guard that lets every authenticated user through.
AnyUserMatches(r) == TRUE
\* req.userId === parseInt(req.params.userId)
UserMatches(r) == r.userId = r.id

\* verifyUserMatch: the authenticated user must be the :userId of the path.
verifyUserMatch ==
  /\ req.pc = "verifyUserMatch"
  /\ req' = IF ~UserMatches(req) THEN Respond(req, 403, "AccessDenied") ELSE CallNext(req)
  /\ UNCHANGED <<store, now, timeOfDay, cache>>

\* POST /api/users/:userId/tokens
PostTokens ==
  /\ req.pc = "handler" /\ req.route = PostTokensRoute
  /\ IF req.body.name = "" THEN
       /\ req' = Respond(req, 400, "TokenNameRequired")
       /\ UNCHANGED <<store, now, timeOfDay, cache>>
     ELSE
       LET id == lastID.api_tokens + 1
           tokenScopes == IF req.body.scopes = "" THEN "read" ELSE req.body.scopes
           expiresAt == IF req.body.expiresInDays = 0 THEN NULL
                        ELSE Date(now + req.body.expiresInDays)
           tokenRecord == [id |-> id, user_id |-> req.userId, token |-> generateApiToken(id),
                           scopes |-> tokenScopes, expires_at |-> expiresAt,
                           last_used_at |-> NULL]
       IN /\ api_tokens' = api_tokens \cup {tokenRecord}
          /\ lastID' = [lastID EXCEPT !.api_tokens = id]
          /\ req' = Respond([req EXCEPT !.res.rows = {tokenRecord}], 200, "")
          /\ UNCHANGED <<users, refresh_tokens, dataStore, now, timeOfDay, cache>>

\* SELECT id, user_id, name, scopes, expires_at, last_used_at, created_at:
\* the row without its token value.
WithoutToken(row) == [row EXCEPT !.token = NoToken]

\* GET /api/users/:userId/tokens
GetTokens ==
  /\ req.pc = "handler" /\ req.route = GetTokensRoute
  /\ LET tokens == {WithoutToken(row) : row \in {x \in api_tokens : x.user_id = req.userId}}
     IN req' = Respond([req EXCEPT !.res.rows = tokens], 200, "")
  /\ UNCHANGED <<store, now, timeOfDay, cache>>

\* SELECT * FROM api_tokens WHERE id = ? AND user_id = ?
OwnToken(id, userId) == {row \in api_tokens : row.id = id /\ row.user_id = userId}

\* DELETE /api/tokens/:id
DeleteToken ==
  /\ req.pc = "handler" /\ req.route = DeleteTokenRoute
  /\ IF OwnToken(req.id, req.userId) = {} THEN
       /\ req' = Respond(req, 404, "TokenNotFound")
       /\ UNCHANGED <<store, now, timeOfDay, cache>>
     ELSE
       /\ api_tokens' = {row \in api_tokens : row.id # req.id}
       /\ req' = Respond(req, 200, "")
       /\ UNCHANGED <<users, refresh_tokens, dataStore, lastID, now, timeOfDay, cache>>

\* The DELETE FROM api_tokens WHERE id = ? of another request, issued by the
\* row's owner, commits while this request waits between its api_tokens
\* lookup and its last_used_at update.
ConcurrentRevoke ==
  /\ req.pc = "authenticateToken.update"
  /\ \E row \in api_tokens : api_tokens' = api_tokens \ {row}
  /\ UNCHANGED <<users, refresh_tokens, dataStore, lastID, now, timeOfDay, cache, req>>

\* The response has been sent; the server is ready for the next request.
Finish ==
  /\ req.pc = "done"
  /\ req' = Idle
  /\ UNCHANGED <<store, now, timeOfDay, cache>>

\* A day passes.
Tick ==
  /\ now < JWT_EXPIRY - 1 + MaxTicks
  /\ now' = now + 1
  /\ timeOfDay' = 0
  /\ UNCHANGED <<store, cache, req>>

\* Time passes within the day.
TickClock ==
  /\ timeOfDay < MaxClock
  /\ timeOfDay' = timeOfDay + 1
  /\ UNCHANGED <<store, now, cache, req>>

\* The refresh_tokens rows of the sessions issued when the users registered
\* on day 0, one after the other.
IssuedAtRegistration ==
  { [id |-> u, user_id |-> u, token |-> randomBytes(u),
     expires_at |-> toISOString(REFRESH_EXPIRY, 0)] : u \in Users }

(* --------------------- the authentication pipeline -------------------- *)
\* The users registered on day 0 and holding the sessions issued then; the
\* first holds an API token without expiry, the last one that expires with
\* the sessions, and each of the two owns a project.  The clock stands one
\* day before the sessions expire.
InitAuth ==
  /\ users = [u \in Users |-> [username |-> u, password_hash |-> bcryptHash(StrongA)]]
  /\ api_tokens =
       { [id |-> 1, user_id |-> 1, token |-> generateApiToken(1), scopes |-> "read",
          expires_at |-> NULL, last_used_at |-> NULL],
         [id |-> 2, user_id |-> NUsers, token |-> generateApiToken(2), scopes |-> "read,write",
          expires_at |-> Date(JWT_EXPIRY), last_used_at |-> NULL] }
  /\ projects = {[id |-> 1, user_id |-> 1], [id |-> 2, user_id |-> NUsers]}
  /\ project_shares = {} /\ sections = {} /\ tasks = {}
  /\ refresh_tokens = IssuedAtRegistration
  /\ lastID = [projects |-> 2, sections |-> 0, tasks |-> 0, api_tokens |-> 2,
               refresh_tokens |-> NUsers]
  /\ now = JWT_EXPIRY - 1
  /\ timeOfDay = 0
  /\ cache = {}
  /\ req = Idle

\* The credential strings a client presents: the session tokens issued at
\* registration, a token with a bad signature, and API token values.
AuthTokens ==
  {jwtSign(u, 0) : u \in Users} \cup {Jwt(1, JWT_EXPIRY + JWT_EXPIRY, FALSE)}
    \cup {generateApiToken(n) : n \in 1..2}

\* Authorization headers: none, the scheme without a token, every token
\* under the Bearer scheme and a session token under another scheme.
AuthHeaders ==
  {NoAuthorization, [scheme |-> "Bearer", token |-> NoToken],
   [scheme |-> "Basic", token |-> jwtSign(1, 0)]}
    \cup [scheme : {"Bearer"}, token : AuthTokens]

AuthBodies(route) ==
  IF route = DeleteProjectRoute THEN {NoBody}
  ELSE {[NoBody EXCEPT !.currentPassword = StrongA, !.newPassword = n] : n \in {StrongB, WeakC}}

ReceiveAuth ==
  /\ req.pc = "idle"
  /\ \E route \in {DeleteProjectRoute, ChangePasswordRoute},
        cookie \in AuthTokens \cup {NoToken}, authorization \in AuthHeaders,
        csrf \in BOOLEAN :
       \E body \in AuthBodies(route),
          id \in IF route = DeleteProjectRoute THEN 1..2 ELSE {0} :
         req' = Incoming(route, cookie, authorization, csrf, id, body)
  /\ UNCHANGED <<store, now, timeOfDay, cache>>

NextAuth ==
  \/ ReceiveAuth
  \/ conditionalCsrf
  \/ authenticateToken
  \/ authenticateTokenUpdate
  \/ checkProjectAccess
  \/ DeleteProject
  \/ PostChangePassword
  \/ Finish
  \/ Tick

SpecAuth == InitAuth /\ [][NextAuth]_vars

(* ------------------------- projects and shares ------------------------ *)
\* The registered users and an empty store; every client holds the session
\* token issued at registration and sends it as a bearer token.
Init ==
  /\ users = [u \in Users |-> [username |-> u, password_hash |-> bcryptHash(StrongA)]]
  /\ api_tokens = {}
  /\ projects = {} /\ project_shares = {} /\ sections = {} /\ tasks = {}
  /\ refresh_tokens = IssuedAtRegistration
  /\ lastID = [projects |-> 0, sections |-> 0, tasks |-> 0, api_tokens |-> 0,
               refresh_tokens |-> NUsers]
  /\ now = 0
  /\ timeOfDay = 0
  /\ cache = {}
  /\ req = Idle

Bearer(u) == [scheme |-> "Bearer", token |-> jwtSign(u, 0)]

\* Project ids a client may name: those handed out and those not yet.
ProjectIds == 1..MaxProjects

Receive ==
  /\ req.pc = "idle"
  /\ \E u \in Users, route \in {PostProjectsRoute} \cup ProjectRoutes :
       IF route = PostProjectsRoute THEN
         /\ lastID.projects < MaxProjects
         /\ req' = Incoming(route, NoToken, Bearer(u), FALSE, 0, [NoBody EXCEPT !.name = "p"])
       ELSE IF route = PostShareRoute THEN
         \E id \in ProjectIds, username \in 0..(NUsers + 1) :
           req' = Incoming(route, NoToken, Bearer(u), FALSE, id,
                           [NoBody EXCEPT !.username = username])
       ELSE IF route = DeleteShareRoute THEN
         \E id \in ProjectIds, shareUserId \in Users :
           req' = [Incoming(route, NoToken, Bearer(u), FALSE, id, NoBody)
                     EXCEPT !.shareUserId = shareUserId]
       ELSE
         \E id \in ProjectIds :
           req' = Incoming(route, NoToken, Bearer(u), FALSE, id, NoBody)
  /\ UNCHANGED <<store, now, timeOfDay, cache>>

Next ==
  \/ Receive
  \/ conditionalCsrf
  \/ authenticateToken
  \/ checkProjectAccess
  \/ PostProjects
  \/ DeleteProject
  \/ PostShare
  \/ DeleteShare
  \/ GetProjectSections
  \/ Finish

Spec == Init /\ [][Next]_vars

(* -------------------------- sections and tasks ------------------------ *)
\* Users 1 and 2 each own a project holding one section with one task, and
\* user 2 has shared its project with user 1.
InitTasks ==
  /\ users = [u \in Users |-> [username |-> u, password_hash |-> bcryptHash(StrongA)]]
  /\ api_tokens = {}
  /\ projects = {[id |-> 1, user_id |-> 1], [id |-> 2, user_id |-> 2]}
  /\ project_shares = {[project_id |-> 2, user_id |-> 1, shared_by_user_id |-> 2]}
  /\ sections = {[id |-> 1, project_id |-> 1], [id |-> 2, project_id |-> 2]}
  /\ tasks = {[id |-> 1, section_id |-> 1, parent_task_id |-> 0],
              [id |-> 2, section_id |-> 2, parent_task_id |-> 0]}
  /\ refresh_tokens = IssuedAtRegistration
  /\ lastID = [projects |-> 2, sections |-> 2, tasks |-> 2, api_tokens |-> 0,
               refresh_tokens |-> NUsers]
  /\ now = 0
  /\ timeOfDay = 0
  /\ cache = {}
  /\ req = Idle

ReceiveTasks ==
  /\ req.pc = "idle"
  /\ \E u \in Users, route \in SectionTaskRoutes :
       IF route = PostSectionsRoute THEN
         /\ lastID.sections < MaxSections
         /\ \E projectId \in ProjectIds :
              req' = Incoming(route, NoToken, Bearer(u), FALSE, 0,
                              [NoBody EXCEPT !.projectId = projectId, !.name = "s"])
       ELSE IF route = PostTasksRoute THEN
         /\ lastID.tasks < MaxTasks
         /\ \E sectionId \in 1..MaxSections, parent_task_id \in 0..MaxTasks :
              req' = Incoming(route, NoToken, Bearer(u), FALSE, 0,
                              [NoBody EXCEPT !.sectionId = sectionId, !.title = "t",
                                             !.parent_task_id = parent_task_id])
       ELSE IF route = PutTaskRoute THEN
         \E id \in 1..MaxTasks, parent_task_id \in (-1)..MaxTasks, title \in {"", "t"} :
           req' = Incoming(route, NoToken, Bearer(u), FALSE, id,
                           [NoBody EXCEPT !.title = title,
                                          !.parent_task_id = parent_task_id])
       ELSE IF route = MoveTaskRoute THEN
         \E id \in 1..MaxTasks, sectionId \in 0..MaxSections :
           req' = Incoming(route, NoToken, Bearer(u), FALSE, id,
                           [NoBody EXCEPT !.sectionId = sectionId])
       ELSE IF route = DeleteTaskRoute THEN
         \E id \in 1..MaxTasks :
           req' = Incoming(route, NoToken, Bearer(u), FALSE, id, NoBody)
       ELSE
         \E id \in 1..MaxSections :
           req' = Incoming(route, NoToken, Bearer(u), FALSE, id, NoBody)
  /\ UNCHANGED <<store, now, timeOfDay, cache>>

NextTasks ==
  \/ ReceiveTasks
  \/ conditionalCsrf
  \/ authenticateToken
  \/ checkSectionAccess
  \/ checkTaskAccess
  \/ PostSections
  \/ GetSectionTasks
  \/ PostTasks
  \/ PutTask
  \/ DeleteTask
  \/ MoveTask
  \/ Finish

SpecTasks == InitTasks /\ [][NextTasks]_vars

(* --------------------- sessions: SpecSession -------------------------- *)
\* Every user holds the session of its registration; user 1 registered
\* REFRESH_EXPIRY days before the initial day at time 1, so that session
\* runs out on the initial day at time 1.
InitSession ==
  /\ users = [u \in Users |-> [username |-> u, password_hash |-> bcryptHash(StrongA)]]
  /\ api_tokens = {}
  /\ projects = {} /\ project_shares = {} /\ sections = {} /\ tasks = {}
  /\ refresh_tokens =
       {[row EXCEPT !.expires_at = IF row.user_id = 1 THEN toISOString(JWT_EXPIRY - 1, 1) ELSE @]
          : row \in IssuedAtRegistration}
  /\ lastID = [projects |-> 0, sections |-> 0, tasks |-> 0, api_tokens |-> 0,
               refresh_tokens |-> NUsers]
  /\ now = JWT_EXPIRY - 1
  /\ timeOfDay = 0
  /\ cache = {}
  /\ req = Idle

\* Refresh token values a client may present: those drawn and those not yet.
RefreshValues == {NoToken} \cup {randomBytes(n) : n \in 1..(NUsers + MaxLogins)}

ReceiveSession ==
  /\ req.pc = "idle"
  /\ \/ /\ lastID.refresh_tokens < NUsers + MaxLogins
        /\ \E username \in {1, NUsers + 1}, password \in {StrongA, WeakC} :
             req' = Incoming(RegisterRoute, NoToken, NoAuthorization, FALSE, 0,
                             [NoBody EXCEPT !.username = username, !.password = password])
     \/ /\ lastID.refresh_tokens < NUsers + MaxLogins
        /\ \E username \in {1, NUsers, NUsers + 1}, password \in {StrongA, StrongB} :
             req' = Incoming(LoginRoute, NoToken, NoAuthorization, FALSE, 0,
                             [NoBody EXCEPT !.username = username, !.password = password])
     \/ \E cookie \in RefreshValues, refreshToken \in RefreshValues :
          req' = [Incoming(RefreshTokenRoute, NoToken, NoAuthorization, FALSE, 0,
                           [NoBody EXCEPT !.refreshToken = refreshToken])
                    EXCEPT !.refreshCookie = cookie]
     \/ \E u \in Users, cookie \in RefreshValues, refreshToken \in RefreshValues :
          req' = [Incoming(LogoutRoute, NoToken, Bearer(u), FALSE, 0,
                           [NoBody EXCEPT !.refreshToken = refreshToken])
                    EXCEPT !.refreshCookie = cookie]
  /\ UNCHANGED <<store, now, timeOfDay, cache>>

NextSession ==
  \/ ReceiveSession
  \/ authenticateToken
  \/ PostRegister
  \/ PostRegisterInsert
  \/ PostLogin
  \/ PostRefreshToken
  \/ PostLogout
  \/ Finish
  \/ Tick

SpecSession == InitSession /\ [][NextSession]_vars

(* ------------------- refresh expiry: SpecExpiry ----------------------- *)
\* Refresh requests only, while the day and the time of day advance.
ReceiveExpiry ==
  /\ req.pc = "idle"
  /\ \E cookie \in RefreshValues, refreshToken \in RefreshValues :
       req' = [Incoming(RefreshTokenRoute, NoToken, NoAuthorization, FALSE, 0,
                        [NoBody EXCEPT !.refreshToken = refreshToken])
                 EXCEPT !.refreshCookie = cookie]
  /\ UNCHANGED <<store, now, timeOfDay, cache>>

NextExpiry ==
  \/ ReceiveExpiry
  \/ PostRefreshToken
  \/ Finish
  \/ Tick
  \/ TickClock

SpecExpiry == InitSession /\ [][NextExpiry]_vars

(* -------------------- API tokens: SpecTokens -------------------------- *)
\* Credentials of the token routes: each user's session token and every
\* API token value, drawn or not yet.
TokenHeaders ==
  {Bearer(u) : u \in Users}
    \cup {[scheme |-> "Bearer", token |-> generateApiToken(n)] : n \in 1..MaxApiTokens}

ReceiveTokens ==
  /\ req.pc = "idle"
  /\ \E authorization \in TokenHeaders :
       \/ /\ lastID.api_tokens < MaxApiTokens
          /\ \E userId \in Users, name \in {"", "t"}, expiresInDays \in {0, 1} :
               req' = Incoming(PostTokensRoute, NoToken, authorization, FALSE, userId,
                               [NoBody EXCEPT !.name = name, !.expiresInDays = expiresInDays])
       \/ \E userId \in Users :
            req' = Incoming(GetTokensRoute, NoToken, authorization, FALSE, userId, NoBody)
       \/ \E id \in 1..MaxApiTokens :
            req' = Incoming(DeleteTokenRoute, NoToken, authorization, FALSE, id, NoBody)
  /\ UNCHANGED <<store, now, timeOfDay, cache>>

NextTokens ==
  \/ ReceiveTokens
  \/ conditionalCsrf
  \/ authenticateToken
  \/ authenticateTokenUpdate
  \/ ConcurrentRevoke
  \/ verifyUserMatch
  \/ PostTokens
  \/ GetTokens
  \/ DeleteToken
  \/ Finish
  \/ Tick

SpecTokens == InitAuth /\ [][NextTokens]_vars

(* ----------------- access resolution: SpecAccess ---------------------- *)
\* Two projects with a section each, project 2 shared with user 1, and a
\* task in each section.
InitAccess ==
  /\ users = [u \in Users |-> [username |-> u, password_hash |-> bcryptHash(StrongA)]]
  /\ api_tokens = {}
  /\ projects = {[id |-> 1, user_id |-> 1], [id |-> 2, user_id |-> 2]}
  /\ project_shares = {[project_id |-> 2, user_id |-> 1, shared_by_user_id |-> 2]}
  /\ sections = {[id |-> 1, project_id |-> 1], [id |-> 2, project_id |-> 2]}
  /\ tasks = {[id |-> 1, section_id |-> 2, parent_task_id |-> 0],
              [id |-> 2, section_id |-> 1, parent_task_id |-> 0]}
  /\ refresh_tokens = IssuedAtRegistration
  /\ lastID = [projects |-> 2, sections |-> 2, tasks |-> 2, api_tokens |-> 0,
               refresh_tokens |-> NUsers]
  /\ now = 0
  /\ timeOfDay = 0
  /\ cache = {}
  /\ req = Idle

AccessRoutes ==
  {GetSectionTasksRoute, DeleteSectionRoute, DeleteTaskRoute, GetProjectSectionsRoute,
   DeleteProjectRoute, PostShareRoute, DeleteShareRoute}

ReceiveAccess ==
  /\ req.pc = "idle"
  /\ \E u \in Users, route \in AccessRoutes :
       IF route \in {GetSectionTasksRoute, DeleteSectionRoute} THEN
         \E id \in 1..MaxSections :
           req' = Incoming(route, NoToken, Bearer(u), FALSE, id, NoBody)
       ELSE IF route = DeleteTaskRoute THEN
         \E id \in 1..MaxTasks :
           req' = Incoming(route, NoToken, Bearer(u), FALSE, id, NoBody)
       ELSE IF route = PostShareRoute THEN
         \E id \in ProjectIds, username \in Users :
           req' = Incoming(route, NoToken, Bearer(u), FALSE, id,
                           [NoBody EXCEPT !.username = username])
       ELSE IF route = DeleteShareRoute THEN
         \E id \in ProjectIds, shareUserId \in Users :
           req' = [Incoming(route, NoToken, Bearer(u), FALSE, id, NoBody)
                     EXCEPT !.shareUserId = shareUserId]
       ELSE
         \E id \in ProjectIds :
           req' = Incoming(route, NoToken, Bearer(u), FALSE, id, NoBody)
  /\ UNCHANGED <<store, now, timeOfDay, cache>>

NextAccess ==
  \/ ReceiveAccess
  \/ conditionalCsrf
  \/ authenticateToken
  \/ checkProjectAccess
  \/ checkSectionAccess
  \/ checkTaskAccess
  \/ GetProjectSections
  \/ GetSectionTasks
  \/ DeleteSection
  \/ DeleteTask
  \/ DeleteProject
  \/ PostShare
  \/ DeleteShare
  \/ Finish

SpecAccess == InitAccess /\ [][NextAccess]_vars

(* ============================ properties ============================== *)
StateChanging(route) == Method(route) \notin {"GET", "HEAD", "OPTIONS"}
Ran(r, stage) == \E i \in 1..Len(r.trace) : r.trace[i] = stage
\* authenticateToken has just run: its verdict is the last entry of the trace
JustRanAuth(r) == Len(r.trace) > 0 /\ r.trace[Len(r.trace)] = "authenticateToken"
\* the day authenticateToken ran
AuthDay(r) == r.authAt[1]
HasLiveApiToken(token, day) ==
  \E row \in api_tokens : row.token = token /\ ApiTokenLive(row, day)

\* C4: a request with an invalid or expired accessToken cookie and a valid
\* access token in its Authorization: Bearer header is authenticated as the
\* bearer token's user (the header is tried after the cookie fails).
C4_CookieThenBearer ==
  ( /\ JustRanAuth(req)
    /\ req.cookie # NoToken
    /\ ~jwtVerify(req.cookie, now)
    /\ StartsWithBearer(req.authorization)
    /\ jwtVerify(req.authorization.token, AuthDay(req))
    /\ req.threw = "" )
  => (req.authenticated /\ req.userId = req.authorization.token.userId)

\* C5: a request whose only credential is the accessToken cookie never
\* resolves to an API-token principal, whatever the cookie holds.
C5_CookieNeverApiToken ==
  (req.cookie # NoToken /\ req.authorization = NoAuthorization)
  => (~req.authenticatedViaToken /\ req.tokenScopes = "")

\* C6: on every state-changing endpoint that requires authentication, a
\* cookie-authenticated request without a valid X-CSRF-Token is rejected with
\* CsrfMismatch before the handler runs.
C6_CsrfUniform ==
  ( /\ StateChanging(req.route)
    /\ jwtVerify(req.cookie, now)
    /\ req.authorization = NoAuthorization
    /\ ~req.csrf )
  => ( /\ req.pc # "handler" /\ ~Ran(req, "handler")
       /\ req.pc = "done" => req.error = "CsrfMismatch" )

\* C7: on a CSRF-protected route, every state-changing request whose identity
\* was resolved from the accessToken cookie has passed CSRF verification,
\* also when it carries an Authorization: Bearer header.
C7_CookieIdentityVerified ==
  ( /\ CsrfMounted(req.route) /\ StateChanging(req.route)
    /\ req.authenticated /\ req.credential = "cookie" )
  => req.csrfVerified

\* C8: CSRF verification never runs before authenticateToken has resolved a
\* principal, and a state-changing request without any credential is
\* answered AuthenticationRequired (401), never CsrfMismatch.
C8_AuthBeforeCsrf ==
  /\ \A i \in 1..Len(req.trace) :
       req.trace[i] = "conditionalCsrf"
         => \E j \in 1..(i - 1) : req.trace[j] = "authenticateToken"
  /\ ( /\ req.pc = "done" /\ StateChanging(req.route)
       /\ req.cookie = NoToken /\ req.authorization = NoAuthorization )
     => (req.status = 401 /\ req.error = "AuthenticationRequired")

\* the credential the request carries: the cookie, or else the token word of
\* the Authorization header whatever its scheme
Presented(r) == IF r.cookie # NoToken THEN r.cookie ELSE r.authorization.token

C10_FailsClosed ==
  /\ []((req.pc \in {"handler", "checkProjectAccess"} \/ Ran(req, "handler"))
        => req.authenticated)
  /\ [][ ( /\ req.pc \in {"authenticateToken", "authenticateToken.update"}
             /\ req' # req /\ ~req'.authenticated )
           => /\ IF req'.pc = "done" THEN req'.status \in {401, 403, 500}
                 ELSE req'.pc = "authenticateToken.update"
              /\ store' = store ]_vars
  /\ [][ (req.pc = "done" /\ ~req.authenticated) => req'.pc \in {"done", "idle"} ]_vars
C10_Witness ==
  /\ JustRanAuth(req) /\ req.pc = "done" /\ req.status = 500
  /\ req.threw = "dbRun"

JustRan(r, stage) == Len(r.trace) > 0 /\ r.trace[Len(r.trace)] = stage

\* C1: every successful section- or task-level operation is performed by a
\* principal that owns, or holds a share of, the project of every section and
\* task the operation touches, the target section of a move and the parent
\* task named by parent_task_id included.
C1_AccessToEveryTouched ==
  (req.pc = "done" /\ req.status = 200 /\ req.route \in SectionTaskRoutes)
  => \A projectId \in req.touched :
       \/ \E p \in projects : p.id = projectId /\ p.user_id = req.userId
       \/ \E sh \in project_shares :
            sh.project_id = projectId /\ sh.user_id = req.userId

\* C2: for every user and every existing project checkProjectAccess has
\* exactly one outcome: Owner (isOwner) iff the user owns the project,
\* SharedCollaborator (not isOwner) iff the user is not the owner and holds a
\* share row, Denied (403) otherwise; the share table is consulted only
\* after the ownership test failed, and no share row names the owner of its
\* project.
C2_OneOutcome ==
  /\ \A p \in projects, sh \in project_shares :
       sh.project_id = p.id => sh.user_id # p.user_id
  /\ \A p \in projects :
       (JustRan(req, "checkProjectAccess") /\ req.id = p.id) =>
         IF p.user_id = req.userId
         THEN /\ req.pc = "handler" /\ req.isOwner /\ req.project = p.id
              /\ req.queried = <<"projects">>
         ELSE IF \E sh \in project_shares :
                   sh.project_id = p.id /\ sh.user_id = req.userId
         THEN /\ req.pc = "handler" /\ ~req.isOwner /\ req.project = p.id
              /\ req.queried = <<"projects", "project_shares", "projects">>
         ELSE /\ req.pc = "done" /\ req.status = 403 /\ ~req.isOwner
              /\ req.queried = <<"projects", "project_shares">>
C2_Witness ==
  /\ JustRan(req, "checkProjectAccess") /\ req.pc = "handler" /\ ~req.isOwner
  /\ \E p \in projects : p.id = req.id /\ p.user_id # req.userId

\* C3: a project-level request naming a project id without a project row is
\* answered NotFound (404); Denied (403) is answered only for a project
\* that exists.
C3_NotFoundNotDenied ==
  JustRan(req, "checkProjectAccess") =>
    IF \E p \in projects : p.id = req.id
    THEN req.status # 404
    ELSE req.pc = "done" /\ req.status = 404

(* -------------------------- session claims ---------------------------- *)
\* The step in which the handler of a route answers the request.
HandlerStep(route) ==
  req.pc \in {"handler", "handler.insert"} /\ req.route = route /\ req'.pc = "done"

\* Is there a refresh_tokens row with this token among the rows?
Stored(rows, token) == \E row \in rows : row.token = token

\* C11: a refresh presenting a stored refresh token before the day of its
\* expiry answers 200 with an access token that verifies to the user of that
\* session; a logout that answers 200 leaves no row for the refresh token it
\* presented, a token without a row never gets one again, and a refresh
\* presenting a token without a row answers 403.
C11_RefreshUntilLogout ==
  [][ LET t == PresentedRefreshToken(req)
      IN /\ HandlerStep(RefreshTokenRoute) =>
              /\ \A row \in refresh_tokens :
                   (row.token = t /\ now < row.expires_at[1]) =>
                     /\ req'.status = 200
                     /\ jwtVerify(req'.res.accessToken, now)
                     /\ req'.res.accessToken.userId = row.user_id
              /\ (t # NoToken /\ ~Stored(refresh_tokens, t)) => req'.status = 403
         /\ (HandlerStep(LogoutRoute) /\ req'.status = 200 /\ t # NoToken) =>
              ~Stored(refresh_tokens', t)
         /\ \A n \in 1..lastID.refresh_tokens :
              ~Stored(refresh_tokens, randomBytes(n)) => ~Stored(refresh_tokens', randomBytes(n))
    ]_vars

\* A refresh has answered 403 to a token that was issued and whose row a
\* logout has deleted.
C11_Witness ==
  /\ req.pc = "done" /\ req.route = RefreshTokenRoute /\ req.status = 403
  /\ \E n \in 1..lastID.refresh_tokens :
       PresentedRefreshToken(req) = randomBytes(n) /\ ~Stored(refresh_tokens, randomBytes(n))

\* C12: a register or login that answers 200 returns an accessToken that
\* verifies to the id of exactly the user just registered (a new users row
\* with the username sent) or logged in (the users row with the username
\* sent, whose password matched), and leaves a refresh_tokens row whose token
\* is the refreshToken returned, whose user_id is that user and whose expiry
\* is REFRESH_EXPIRY days after the issuance.
C12_SessionIssued ==
  [][ ((HandlerStep(RegisterRoute) \/ HandlerStep(LoginRoute)) /\ req'.status = 200) =>
        \E u \in DOMAIN users' :
          /\ users'[u].username = req.body.username
          /\ \A v \in DOMAIN users' : users'[v].username = req.body.username => v = u
          /\ IF req.route = RegisterRoute
             THEN u \notin DOMAIN users
             ELSE u \in DOMAIN users /\ users[u].password_hash = bcryptHash(req.body.password)
          /\ jwtVerify(req'.res.accessToken, now)
          /\ req'.res.accessToken.userId = u
          /\ \E row \in refresh_tokens' \ refresh_tokens :
               /\ row.token = req'.res.refreshToken
               /\ row.user_id = u
               /\ row.expires_at = toISOString(now + REFRESH_EXPIRY, timeOfDay)
    ]_vars

\* A registration has answered 200 for a user that did not exist before.
C12_Witness ==
  /\ req.pc = "done" /\ req.route = RegisterRoute /\ req.status = 200
  /\ req.res.user \in DOMAIN users \ Users
  /\ \E row \in refresh_tokens : row.token = req.res.refreshToken /\ row.user_id = req.res.user

\* C20: logout removes exactly the refresh_tokens rows whose token is the
\* refresh token presented and changes no other row of any table; when no
\* row matches, or no refresh token is presented, the store is unchanged;
\* in every case the logout answers 200.
C20_LogoutFrame ==
  [][ HandlerStep(LogoutRoute) =>
        LET t == PresentedRefreshToken(req)
        IN /\ req'.status = 200
           /\ refresh_tokens' = {row \in refresh_tokens : row.token # t}
           /\ (~Stored(refresh_tokens, t)) => refresh_tokens' = refresh_tokens
           /\ UNCHANGED <<users, api_tokens, dataStore>>
    ]_vars

\* A logout has answered 200 and removed the session it presented while
\* another session of the same user is still stored.
C20_Witness ==
  /\ req.pc = "done" /\ req.route = LogoutRoute /\ req.status = 200
  /\ \E n \in 1..lastID.refresh_tokens :
       PresentedRefreshToken(req) = randomBytes(n) /\ ~Stored(refresh_tokens, randomBytes(n))
  /\ \E row \in refresh_tokens : row.user_id = req.userId

(* ------------------------- API token claims --------------------------- *)
\* C14: when no cookie session verifies and no store call throws, a value in
\* the Authorization: Bearer header that is not a valid access token
\* authenticates the request as an API-token principal with the user id and
\* scopes of its api_tokens row, that row's last_used_at set, if and only if
\* a row with that value exists whose expiry is null or strictly in the
\* future.
C14_ApiTokenIff ==
  LET bearer == req.authorization.token
  IN ( /\ JustRanAuth(req)
       /\ req.threw = ""
       /\ StartsWithBearer(req.authorization)
       /\ ~jwtVerify(bearer, AuthDay(req))
       /\ ~jwtVerify(req.cookie, AuthDay(req)) )
     => ( ( /\ req.authenticated
            /\ req.authenticatedViaToken
            /\ \E row \in api_tokens :
                 /\ row.token = bearer
                 /\ req.userId = row.user_id
                 /\ req.tokenScopes = row.scopes
                 /\ row.last_used_at # NULL )
          <=> HasLiveApiToken(bearer, AuthDay(req)) )

\* Has the API token with this id been inserted and deleted again?
Revoked(rows, n) == n \in 1..lastID.api_tokens /\ \A row \in rows : row.id # n

C15_OwnTokensOnly ==
  [][ /\ (req.pc = "verifyUserMatch" /\ req.userId # req.id /\ req' # req) =>
            /\ req'.pc = "done" /\ req'.status = 403 /\ req'.res = NoRes
            /\ api_tokens' = api_tokens
      /\ (req'.pc = "handler" /\ req'.route \in {PostTokensRoute, GetTokensRoute}) =>
            req'.authenticated /\ req'.userId = req'.id
      /\ HandlerStep(GetTokensRoute) =>
            \A row \in req'.res.rows : row.user_id = req.userId /\ row.token = NoToken
      /\ HandlerStep(DeleteTokenRoute) =>
            IF \E row \in api_tokens : row.id = req.id /\ row.user_id = req.userId
            THEN /\ api_tokens \ api_tokens' \subseteq
                      {row \in api_tokens : row.id = req.id /\ row.user_id = req.userId}
                 /\ api_tokens' \subseteq api_tokens
            ELSE req'.status = 404 /\ api_tokens' = api_tokens
      /\ \A row \in api_tokens' :
            (\A x \in api_tokens : x.id # row.id) =>
               /\ HandlerStep(PostTokensRoute) /\ req.authenticated
               /\ row.user_id = req.userId /\ req.userId = req.id
    ]_vars

\* An authenticated request to create a token for another user has been
\* refused by verifyUserMatch.
C15_Witness ==
  /\ req.pc = "done" /\ req.route = PostTokensRoute /\ req.status = 403
  /\ req.authenticated /\ req.userId # req.id
  /\ JustRan(req, "verifyUserMatch")

(* --------------------------- sharing claims --------------------------- *)
ShareRoutes == {PostShareRoute, DeleteShareRoute}

\* The request in flight is an authenticated share or unshare request for an
\* existing project that the authenticated user does not own.
ShareByNonOwner(r) ==
  /\ r.route \in ShareRoutes /\ r.authenticated
  /\ \E p \in projects : p.id = r.id /\ p.user_id # r.userId

\* The frame of C16: only a share or unshare request of the project's owner
\* changes project_shares, and each new row records that owner.
SharesChangedByOwnerOnly ==
  /\ project_shares' # project_shares =>
       /\ req.route \in ShareRoutes
       /\ \E p \in projects : p.id = req.id /\ p.user_id = req.userId
       /\ \A row \in (project_shares \ project_shares') \cup (project_shares' \ project_shares) :
            row.project_id = req.id
  /\ \A row \in project_shares' \ project_shares :
       \E p \in projects : p.id = row.project_id /\ p.user_id = row.shared_by_user_id

\* C16 as stated: a share or unshare request of a user who does not own the
\* project (a shared collaborator or an uninvolved user) ends with 403 and
\* project_shares unchanged; project_shares is changed only by a request of
\* the project's owner, and every row created records the owner as
\* shared_by_user_id.
C16_SharesByOwnerOnly ==
  [][ /\ (ShareByNonOwner(req') /\ req.pc # "done" /\ req'.pc = "done") =>
            req'.status = 403 /\ project_shares' = project_shares
      /\ SharesChangedByOwnerOnly
    ]_vars

\* C16 amended: as C16, but the rejection is 400 when a share request names
\* no username and the requester passed checkProjectAccess (the body is
\* validated before ownership is tested), and 403 otherwise.
C16_SharesByOwnerOnlyOr400 ==
  [][ /\ (ShareByNonOwner(req') /\ req.pc # "done" /\ req'.pc = "done") =>
            /\ project_shares' = project_shares
            /\ req'.status =
                 IF /\ req.pc = "handler" /\ req.route = PostShareRoute
                    /\ req.body.username = 0
                 THEN 400 ELSE 403
      /\ SharesChangedByOwnerOnly
    ]_vars

\* A shared collaborator's request to share the project further has been
\* refused by the handler.
C16_Witness ==
  /\ req.pc = "done" /\ req.route = PostShareRoute /\ req.status = 403
  /\ JustRan(req, "handler")
  /\ ShareRow(req.id, req.userId) # {}
  /\ \E p \in projects : p.id = req.id /\ p.user_id # req.userId

\* C17: DELETE /api/projects/:id issued by a shared collaborator (a user
\* with a share of the project who does not own it) is rejected, and the
\* project row, its sections, its tasks and its shares stay as they were.
C17_DeleteByOwnerOnly ==
  [][ ( /\ HandlerStep(DeleteProjectRoute)
        /\ ShareRow(req.id, req.userId) # {}
        /\ OwnedProject(req.id, req.userId) = {} )
      => (req'.status >= 400 /\ UNCHANGED dataStore)
    ]_vars

\* Has the project with this id been created and deleted again?
DeletedProject(id) == id \in 1..lastID.projects /\ ProjectRow(id) = 0

\* C18: once a project has been deleted, no project_shares row, section or
\* task refers to its id, and checkProjectAccess lets no request for that
\* project id through.
C18_DeletionCascades ==
  \A id \in 1..lastID.projects :
    DeletedProject(id) =>
      /\ \A row \in project_shares : row.project_id # id
      /\ \A section \in sections : section.project_id # id
      /\ \A task \in tasks : TaskProject(task.id) # {id}
      /\ (req.route \in ProjectRoutes /\ req.id = id /\ Ran(req, "checkProjectAccess")
            /\ req.route # DeleteProjectRoute)
           => req.status \in {403, 404}

(* ---------------------- access resolution claims ---------------------- *)
\* The verdict of the project resolution for the user of request r on
\* project projectId, read off request r2 as the middleware left it: owner
\* first, then share, otherwise 403.
ProjectVerdict(r, r2, projectId) ==
  IF \E p \in projects : p.id = projectId /\ p.user_id = r.userId
  THEN r2.pc # "done" /\ r2.status = 0 /\ r2.isOwner
  ELSE IF \E sh \in project_shares : sh.project_id = projectId /\ sh.user_id = r.userId
  THEN r2.pc # "done" /\ r2.status = 0 /\ ~r2.isOwner
  ELSE r2.pc = "done" /\ r2.status = 403

\* C19: checkProjectAccess grants as owner, grants as collaborator or denies
\* with 403 by the owner-then-share resolution; checkSectionAccess on an
\* existing section and checkTaskAccess on an existing task of an existing
\* section give exactly that verdict for the project of the section (of the
\* task's section); a section or task id without a row is answered 404.
C19_SameResolution ==
  [][ /\ (req.pc = "checkProjectAccess" /\ req' # req) =>
            ProjectVerdict(req, req', req.id)
      /\ (req.pc = "checkSectionAccess" /\ req' # req) =>
            IF \A sc \in sections : sc.id # req.id
            THEN req'.pc = "done" /\ req'.status = 404
            ELSE \A sc \in sections :
                   sc.id = req.id => ProjectVerdict(req, req', sc.project_id)
      /\ (req.pc = "checkTaskAccess" /\ req' # req) =>
            IF \A t \in tasks : t.id # req.id
            THEN req'.pc = "done" /\ req'.status = 404
            ELSE \A t \in tasks, sc \in sections :
                   (t.id = req.id /\ sc.id = t.section_id) =>
                     ProjectVerdict(req, req', sc.project_id)
    ]_vars

\* checkTaskAccess has let a shared collaborator through to a task of the
\* shared project, with isOwner false.
C19_Witness ==
  /\ JustRan(req, "checkTaskAccess") /\ req.pc = "handler" /\ ~req.isOwner
  /\ \E t \in tasks, sc \in sections :
       /\ t.id = req.id /\ sc.id = t.section_id
       /\ ShareRow(sc.project_id, req.userId) # {}
       /\ OwnedProject(sc.project_id, req.userId) = {}

(* ----------------------- refresh and expiry claims -------------------- *)
\* The current instant, in the form of a stored timestamp.
Instant == toISOString(now, timeOfDay)

\* C21: a refresh, whatever its answer, changes no table, so refresh_tokens
\* keeps the row of the token presented; and a refresh presenting a stored
\* token before that row's expiry instant answers 200, however often the
\* token was exchanged before.
C21_NoRotation ==
  [][ HandlerStep(RefreshTokenRoute) =>
        /\ refresh_tokens' = refresh_tokens
        /\ UNCHANGED <<users, api_tokens, dataStore>>
        /\ \A row \in refresh_tokens :
             (row.token = PresentedRefreshToken(req)
                /\ InstantGreater(row.expires_at, Instant))
               => req'.status = 200 /\ jwtVerify(req'.res.accessToken, now)
    ]_vars

\* A refresh has answered 200 and the row of its token is still stored.
C21_Witness ==
  /\ req.pc = "done" /\ req.route = RefreshTokenRoute /\ req.status = 200
  /\ Stored(refresh_tokens, PresentedRefreshToken(req))
  /\ req.res.accessToken.userId \in Users

\* C22: a refresh is accepted only while the current instant is strictly
\* before the expiry instant stored in the row of its token; from that
\* instant on a refresh with the token answers 403 although the row is
\* stored, and the row stays stored.
C22_ExpiryAtInstant ==
  [][ HandlerStep(RefreshTokenRoute) =>
        \A row \in refresh_tokens :
          (row.token = PresentedRefreshToken(req)
             /\ ~InstantGreater(row.expires_at, Instant))
            => /\ req'.status = 403 /\ req'.error = "InvalidOrExpired"
               /\ row \in refresh_tokens'
    ]_vars

(* ------------------ stateless access tokens: SpecStateless ------------ *)
\* Clients presenting the access tokens issued at registration, or a
\* forged one, log out and change their passwords, by cookie or by bearer
\* header, as days pass.
ReceiveStateless ==
  /\ req.pc = "idle"
  /\ \E token \in {jwtSign(u, 0) : u \in Users} \cup {Jwt(1, JWT_EXPIRY + JWT_EXPIRY, FALSE)},
        byCookie \in BOOLEAN :
       LET cookie == IF byCookie THEN token ELSE NoToken
           authorization == IF byCookie THEN NoAuthorization
                            ELSE [scheme |-> "Bearer", token |-> token]
       IN \/ \E refreshToken \in RefreshValues :
               req' = [Incoming(LogoutRoute, cookie, authorization, TRUE, 0, NoBody)
                         EXCEPT !.refreshCookie = refreshToken]
          \/ \E currentPassword \in {StrongA, StrongB}, newPassword \in {StrongA, StrongB} :
               req' = Incoming(ChangePasswordRoute, cookie, authorization, TRUE, 0,
                               [NoBody EXCEPT !.currentPassword = currentPassword,
                                              !.newPassword = newPassword])
  /\ UNCHANGED <<store, now, timeOfDay, cache>>

NextStateless ==
  \/ ReceiveStateless
  \/ authenticateToken
  \/ PostLogout
  \/ PostChangePassword
  \/ Finish
  \/ Tick

SpecStateless == InitSession /\ [][NextStateless]_vars

\* C23: whether authenticateToken accepts a JSON web token is decided by
\* the token and the clock alone: in every store state reached, a signed
\* token is accepted before its expiry, with its own user id and without a
\* store call, and any other is not accepted; so it is still accepted
\* after its user logged out, lost every refresh row and changed password.
C23_StatelessVerification ==
  LET token == SelectToken(req)
  IN (JustRanAuth(req) /\ token.kind = "jwt") =>
       /\ req.authenticated <=> (token.signed /\ AuthDay(req) < token.exp)
       /\ req.authenticated =>
             req.userId = token.userId /\ req.authenticatedViaJWT /\ req.threw = ""

\* A request is authenticated by the access token of a user who has no
\* refresh row left and whose password is no longer the one registered.
C23_Witness ==
  /\ JustRanAuth(req) /\ req.authenticated /\ req.authenticatedViaJWT
  /\ \A row \in refresh_tokens : row.user_id # req.userId
  /\ users[req.userId].password_hash # bcryptHash(StrongA)

ReceiveRegister ==
  /\ req.pc = "idle"
  /\ lastID.refresh_tokens < NUsers + MaxLogins + 1
  /\ \E username \in {1, NUsers + 1, NUsers + 2}, password \in {StrongA, WeakC} :
       req' = Incoming(RegisterRoute, NoToken, NoAuthorization, FALSE, 0,
                       [NoBody EXCEPT !.username = username, !.password = password])
  /\ UNCHANGED <<store, now, timeOfDay, cache>>

NextRegister ==
  \/ ReceiveRegister
  \/ PostRegister
  \/ PostRegisterInsert
  \/ ConcurrentRegister
  \/ Finish
  \/ Tick

SpecRegister == InitSession /\ [][NextRegister]_vars

\* C25: a registration whose username is taken when the handler answers,
\* also one taken by a racing registration since the handler looked it up,
\* is answered 409 (400 when its password is weak) and adds no users row
\* and no refresh_tokens row; and no two users rows share a username.
C25_DuplicateUsername409 ==
  [][ /\ (HandlerStep(RegisterRoute) /\ UserByUsername(req.body.username) # {}) =>
           /\ req'.status = IF validatePassword(req.body.password) # {} THEN 400 ELSE 409
           /\ users' = users /\ refresh_tokens' = refresh_tokens
      /\ \A u, v \in DOMAIN users' : users'[u].username = users'[v].username => u = v
    ]_vars

ReceiveNesting ==
  /\ req.pc = "idle"
  /\ \E u \in Users :
       \/ /\ lastID.tasks < MaxTasks
          /\ \E sectionId \in 1..2, parent_task_id \in 0..MaxTasks :
               req' = Incoming(PostTasksRoute, NoToken, Bearer(u), FALSE, 0,
                               [NoBody EXCEPT !.sectionId = sectionId, !.title = "t",
                                              !.parent_task_id = parent_task_id])
       \/ /\ lastID.tasks < MaxTasks
          /\ \E id \in 1..MaxTasks :
               req' = Incoming(PostSubtasksRoute, NoToken, Bearer(u), FALSE, id,
                               [NoBody EXCEPT !.title = "t"])
       \/ \E id \in 1..MaxTasks, parent_task_id \in (-1)..MaxTasks :
            req' = Incoming(PutTaskRoute, NoToken, Bearer(u), FALSE, id,
                            [NoBody EXCEPT !.parent_task_id = parent_task_id])
  /\ UNCHANGED <<store, now, timeOfDay, cache>>

NextNesting ==
  \/ ReceiveNesting
  \/ conditionalCsrf
  \/ authenticateToken
  \/ checkTaskAccess
  \/ PostTasks
  \/ PostSubtasks
  \/ PutTask
  \/ Finish

SpecNesting == InitTasks /\ [][NextNesting]_vars

\* tasks.parent_task_id of the task with this id (0: none, or no such task)
ParentOf(taskId) ==
  IF TaskRow(taskId) = {} THEN 0 ELSE (CHOOSE t \in TaskRow(taskId) : TRUE).parent_task_id

\* Is ancestorId reached from taskId by following parent_task_id at most
\* n times?
RECURSIVE IsAncestor(_, _, _)
IsAncestor(ancestorId, taskId, n) ==
  /\ n > 0 /\ ParentOf(taskId) > 0
  /\ \/ ParentOf(taskId) = ancestorId
     \/ IsAncestor(ancestorId, ParentOf(taskId), n - 1)

\* C27: task nesting never exceeds two levels: no task that has a parent
\* is itself the parent of a task, and no task is its own ancestor.
C27_TwoLevels ==
  /\ \A t \in tasks : t.parent_task_id > 0 => \A c \in tasks : c.parent_task_id # t.id
  /\ \A t \in tasks : ~IsAncestor(t.id, t.id, MaxTasks)

(* ------------------ unshare during a request: SpecRevoke -------------- *)
\* The owner's DELETE /api/projects/:id/shares/:shareUserId commits while
\* another client's request is between two of its awaits.
ConcurrentUnshare ==
  /\ req.pc \notin {"idle", "done"}
  /\ \E row \in project_shares : project_shares' = project_shares \ {row}
  /\ UNCHANGED <<authStore, projects, sections, tasks, lastID, now, timeOfDay, cache, req>>

ReceiveRevoke ==
  /\ req.pc = "idle"
  /\ \E u \in Users :
       \/ \E id \in 1..MaxSections :
            req' = Incoming(DeleteSectionRoute, NoToken, Bearer(u), FALSE, id, NoBody)
       \/ \E id \in 1..MaxTasks :
            req' = Incoming(DeleteTaskRoute, NoToken, Bearer(u), FALSE, id, NoBody)
  /\ UNCHANGED <<store, now, timeOfDay, cache>>

NextRevoke ==
  \/ ReceiveRevoke
  \/ conditionalCsrf
  \/ authenticateToken
  \/ checkSectionAccess
  \/ checkTaskAccess
  \/ DeleteSection
  \/ DeleteTask
  \/ ConcurrentUnshare
  \/ Finish

SpecRevoke == InitAccess /\ [][NextRevoke]_vars

\* C28: once the removal of a user's share of a project is committed, no
\* write of that user to the project's sections or tasks is applied: every
\* handler step that removes a section or task is taken for a user who, at
\* that step, owns the row's project or holds a share of it.
C28_NoWriteAfterUnshare ==
  [][ (HandlerStep(DeleteSectionRoute) \/ HandlerStep(DeleteTaskRoute)) =>
        /\ \A sc \in sections \ sections' : HasAccess(sc.project_id, req.userId)
        /\ \A t \in tasks \ tasks' :
             \A projectId \in TaskProject(t.id) : HasAccess(projectId, req.userId)
    ]_vars

(* ---------------------- project-list cache: SpecCache ----------------- *)
\* Clients list their projects and delete sections and tasks while the
\* time of day advances.
ReceiveCache ==
  /\ req.pc = "idle"
  /\ \E u \in Users :
       \/ \E userId \in Users :
            req' = Incoming(GetProjectsRoute, NoToken, Bearer(u), FALSE, userId, NoBody)
       \/ \E id \in 1..2 :
            req' = Incoming(DeleteSectionRoute, NoToken, Bearer(u), FALSE, id, NoBody)
       \/ \E id \in 1..2 :
            req' = Incoming(DeleteTaskRoute, NoToken, Bearer(u), FALSE, id, NoBody)
  /\ UNCHANGED <<store, now, timeOfDay, cache>>

NextCache ==
  \/ ReceiveCache
  \/ conditionalCsrf
  \/ authenticateToken
  \/ verifyUserMatch
  \/ checkSectionAccess
  \/ checkTaskAccess
  \/ GetProjects
  \/ DeleteSection
  \/ DeleteTask
  \/ Finish
  \/ TickClock

SpecCache == InitTasks /\ [][NextCache]_vars

\* C29: the project list a GET /api/users/:userId/projects answers with is
\* never one computed before a mutation that changes it: every 200 answer
\* of the handler carries the list as the store has it at that step.
C29_CacheNeverStale ==
  [][ (HandlerStep(GetProjectsRoute) /\ req'.status = 200) =>
        req'.res.rows = projectsWithCounts(req.userId)
    ]_vars

(* ---------------------- API-token scopes: SpecScopes ------------------ *)
\* The scopes column values a token is created with.
ScopeValues == {"read", "read,write", "admin"}

\* Two users, each holding an API token with any scopes; no projects yet.
InitScopes ==
  /\ users = [u \in Users |-> [username |-> u, password_hash |-> bcryptHash(StrongA)]]
  /\ \E scopes1 \in ScopeValues, scopes2 \in ScopeValues :
       api_tokens =
         { [id |-> 1, user_id |-> 1, token |-> generateApiToken(1), scopes |-> scopes1,
            expires_at |-> NULL, last_used_at |-> NULL],
           [id |-> 2, user_id |-> NUsers, token |-> generateApiToken(2), scopes |-> scopes2,
            expires_at |-> NULL, last_used_at |-> NULL] }
  /\ projects = {} /\ project_shares = {} /\ sections = {} /\ tasks = {}
  /\ refresh_tokens = IssuedAtRegistration
  /\ lastID = [projects |-> 0, sections |-> 0, tasks |-> 0, api_tokens |-> 2,
               refresh_tokens |-> NUsers]
  /\ now = 0
  /\ timeOfDay = 0
  /\ cache = {}
  /\ req = Idle

\* Every request carries one of the two API tokens as a bearer token.
ReceiveScopes ==
  /\ req.pc = "idle"
  /\ \E n \in 1..2 :
       LET authorization == [scheme |-> "Bearer", token |-> generateApiToken(n)]
       IN \/ /\ lastID.projects < MaxProjects
             /\ \E name \in {"", "p"} :
                  req' = Incoming(PostProjectsRoute, NoToken, authorization, FALSE, 0,
                                  [NoBody EXCEPT !.name = name])
          \/ \E id \in ProjectIds :
               req' = Incoming(DeleteProjectRoute, NoToken, authorization, FALSE, id, NoBody)
          \/ \E newPassword \in {StrongB, WeakC} :
               req' = Incoming(ChangePasswordRoute, NoToken, authorization, FALSE, 0,
                               [NoBody EXCEPT !.currentPassword = StrongA,
                                              !.newPassword = newPassword])
  /\ UNCHANGED <<store, now, timeOfDay, cache>>

NextScopes ==
  \/ ReceiveScopes
  \/ conditionalCsrf
  \/ authenticateToken
  \/ authenticateTokenUpdate
  \/ checkProjectAccess
  \/ PostProjects
  \/ DeleteProject
  \/ PostChangePassword
  \/ Finish

SpecScopes == InitScopes /\ [][NextScopes]_vars

\* C30: what a request authenticated by an API token is allowed and what
\* it changes does not depend on the token's scopes: whatever the scopes,
\* authentication passes the request on as the token's user, project
\* access is decided by ownership and shares, and the handlers of the
\* state-changing routes create the project, delete it or change the
\* password.
C30_ScopesIgnored ==
  [][ req.authenticatedViaToken =>
        /\ (req.pc = "authenticateToken.update" /\ req' # req /\ req'.threw = "") =>
              /\ req'.authenticated /\ req'.pc # "done"
              /\ \E row \in api_tokens :
                   row.token = SelectToken(req) /\ req'.userId = row.user_id
        /\ (req.pc = "checkProjectAccess" /\ req' # req) => ProjectVerdict(req, req', req.id)
        /\ HandlerStep(PostProjectsRoute) =>
              IF req.body.name = ""
              THEN req'.status = 400 /\ projects' = projects
              ELSE /\ req'.status = 200
                   /\ projects' = projects \cup
                        {[id |-> lastID.projects + 1, user_id |-> req.userId]}
        /\ HandlerStep(DeleteProjectRoute) =>
              req'.status = 200 /\ projects' = {p \in projects : p.id # req.id}
        /\ HandlerStep(ChangePasswordRoute) =>
              IF validatePassword(req.body.newPassword) # {}
              THEN req'.status = 400 /\ users' = users
              ELSE IF users[req.userId].password_hash # bcryptHash(req.body.currentPassword)
              THEN req'.status = 401 /\ users' = users
              ELSE /\ req'.status = 200
                   /\ users'[req.userId].password_hash = bcryptHash(req.body.newPassword)
    ]_vars

\* A token whose scopes are 'read' has deleted a project of its user.
C30_Witness ==
  /\ req.pc = "done" /\ req.route = DeleteProjectRoute /\ req.status = 200
  /\ req.authenticatedViaToken /\ req.tokenScopes = "read"
  /\ req.isOwner /\ \A p \in projects : p.id # req.id

====
